---- MODULE Spec2Model ----
(***************************************************************************)
(* libmemalloc: segregated free-list allocator over the program break,     *)
(* page mappings for large requests, and a conservative mark-and-sweep     *)
(* collector with a worker thread (src/src/libmemalloc.c).                 *)
(*                                                                         *)
(* Memory is modelled word by word.  `mem` maps every 8-byte aligned       *)
(* address of the modelled address space to the 64-bit word stored there;  *)
(* block headers, the arena, the bins and the map-list nodes all live in   *)
(* `mem`, exactly where the C code puts them, so that stale headers,       *)
(* misaligned heap walks and stray writes behave as they do in the build.  *)
(* A 64-bit word w is kept as Lo32(w) + B32 * Hi32(w); B32 stands for      *)
(* 2^32 (the two 32-bit flags `free` and `marked` share one word).         *)
(***************************************************************************)
EXTENDS Integers, Sequences, FiniteSets, TLC

(***************************************************************************)
(* Bounds of the model.                                                    *)
(***************************************************************************)
MaxHeapUnits == 4      \* the break may rise by this many 112-byte units
StackSlots   == 2      \* words of the mutator stack that hold pointers
MaxWorkers   == 2      \* collector threads the process may create
MaxCalls     == 6      \* calls of the public functions without a collector
MaxOwnCalls  == 8      \* calls of a program that frees only what it holds
MaxReCalls   == 3      \* calls of a program that also resizes and clears
MaxGcCalls   == 3      \* calls of the public functions beside the collector

(***************************************************************************)
(* Program constants.                                                      *)
(***************************************************************************)
NULL             == 0
EXIT_SUCCESS     == 0
EINVAL           == 22
ENOMEM           == 12
EFAULT           == 14
ENOENT           == 2
EPROTO           == 71
EOVERFLOW        == 75
EIO              == 5

ARCH_ALIGNMENT   == 8
WORD             == 8        \* sizeof(uintptr_t)
B32              == 1048576  \* stands for 2^32: words are lo + B32 * hi
MAGIC_NUMBER     == 199229630   \* 190 * B32 + 190: both halves non-zero
CANARY_VALUE     == 232784094   \* 222 * B32 + 222: both halves non-zero
DEFAULT_NUM_BINS == 10
BYTES_PER_CLASS  == 128
MMAP_THRESHOLD   == 131072
PAGE_SIZE        == 4096

\* struct BlockHeader, byte offsets of the fields
OFF_magic    == 0
OFF_size     == 8
OFF_flags    == 16     \* uint32 free at +16 (low half), uint32 marked at +20
OFF_var_name == 24
OFF_file     == 32
OFF_line     == 40
OFF_canary   == 48
OFF_next     == 56
OFF_prev     == 64
OFF_fl_next  == 72
OFF_fl_prev  == 80
SIZEOF_HDR   == 88
MIN_BLOCK_SIZE == SIZEOF_HDR + ARCH_ALIGNMENT

\* struct MmapBlock
OFF_map_addr == 0
OFF_map_size == 8
OFF_map_next == 16
SIZEOF_MMAP  == 24

\* struct MemArena at heap_start, followed by the bins array
OFF_num_bins  == 0
OFF_bins      == 8
OFF_top_chunk == 16
SIZEOF_ARENA  == 24

FIRST_FIT == 0
NEXT_FIT  == 1
BEST_FIT  == 2
Strategies == {FIRST_FIT, NEXT_FIT, BEST_FIT}

\* diagnostic triplet written by the facade (opaque to the core)
DIAG_FILE == 7
DIAG_LINE == 1
DIAG_VAR  == 9
FILL_VALUE == 255       \* the pattern the tests write into their blocks

(***************************************************************************)
(* Address space of the model.                                             *)
(***************************************************************************)
HEAP_START    == 4096                        \* the initial program break
FREE_LISTS    == HEAP_START + SIZEOF_ARENA   \* allocator->free_lists
METADATA_SIZE == SIZEOF_ARENA + DEFAULT_NUM_BINS * WORD
USER_START    == HEAP_START + METADATA_SIZE
\* sbrk fails beyond it: room for MaxHeapUnits blocks of 16-byte requests
BRK_LIMIT     == USER_START + MaxHeapUnits * (16 + SIZEOF_HDR + WORD)
\* where mmap places regions: two, of MapSize(TotalSize(n)) bytes each
MapBases      == {262144, 397312}

ALIGN(v) == ((v + (ARCH_ALIGNMENT - 1)) \div ARCH_ALIGNMENT) * ARCH_ALIGNMENT
TotalSize(n) == ALIGN(n) + SIZEOF_HDR + WORD
MapSize(total) == ((total + PAGE_SIZE - 1) \div PAGE_SIZE) * PAGE_SIZE

\* request sizes the mutator uses
SmallSizes == {8, 16}
LargeSizes == {MMAP_THRESHOLD + 1}
ReqSizes   == SmallSizes \cup {MMAP_THRESHOLD} \cup LargeSizes
\* request sizes of realloc and calloc: one is no multiple of ARCH_ALIGNMENT
ReSizes    == {8, 12} \cup LargeSizes

MapAddrs  == UNION {{b + k * WORD : k \in 0 .. 12}
                    \cup {b + MapSize(TotalSize(n)) - WORD : n \in LargeSizes}
                    \cup {b + TotalSize(n) - WORD : n \in LargeSizes}
                    : b \in MapBases}
Addrs == {a \in HEAP_START .. (BRK_LIMIT + SIZEOF_HDR) : a % WORD = 0}
           \cup MapAddrs

Lo32(w) == w % B32
Hi32(w) == w \div B32

(***************************************************************************)
(* The allocator state handed through the C functions: the fields of       *)
(* mem_allocator_t, the memory, the break, the set of mapped regions and   *)
(* the fate of the process ("run", "segv" after a wild access, "hang"      *)
(* inside a loop that never ends).  The field denied records that the      *)
(* operating system refused a request (sbrk or mmap) during the call.      *)
(***************************************************************************)
Rd(s, a) == IF a \in DOMAIN s.mem THEN s.mem[a] ELSE 0
Wr(s, a, v) == IF a \in DOMAIN s.mem THEN [s EXCEPT !.mem[a] = v]
               ELSE [s EXCEPT !.fate = "segv"]

Fld(s, b, off) == Rd(s, b + off)
SetFld(s, b, off, v) == Wr(s, b + off, v)
FreeOf(s, b)   == Lo32(Rd(s, b + OFF_flags))
MarkedOf(s, b) == Hi32(Rd(s, b + OFF_flags))
SetFree(s, b, v)   == Wr(s, b + OFF_flags, v + B32 * Hi32(Rd(s, b + OFF_flags)))
SetMarked(s, b, v) == Wr(s, b + OFF_flags, Lo32(Rd(s, b + OFF_flags)) + B32 * v)

FreeListHead(s, i) == Rd(s, FREE_LISTS + i * WORD)
SetFreeListHead(s, i, v) == Wr(s, FREE_LISTS + i * WORD, v)

(***************************************************************************)
(* MEM_sbrk: moves the break by inc and returns the old break; the OS      *)
(* refuses a break above BRK_LIMIT and, where the field refuse is set, to   *)
(* lower the break.                                                        *)
(***************************************************************************)
MEM_sbrk(s, inc) ==
  IF s.brk + inc > BRK_LIMIT \/ (inc < 0 /\ s.refuse)
    THEN [s |-> [s EXCEPT !.denied = TRUE], ret |-> -ENOMEM]
    ELSE [s |-> [s EXCEPT !.brk = s.brk + inc], ret |-> s.brk]

(***************************************************************************)
(* MEM_validateBlock                                                       *)
(***************************************************************************)
RECURSIVE MapContaining(_, _, _, _)
\* for (map = mmap_list; map; map = map->next) if addr in [map->addr, +size)
MapContaining(s, map, addr, seen) ==
  IF map = NULL \/ map \in seen THEN NULL
  ELSE IF addr >= Rd(s, map + OFF_map_addr)
          /\ addr < Rd(s, map + OFF_map_addr) + Rd(s, map + OFF_map_size)
         THEN map
         ELSE MapContaining(s, Rd(s, map + OFF_map_next), addr, seen \cup {map})

\* the checks of MEM_validateBlock once the region holding block is known
ValidateIn(s, block, in_heap, map, bsize) ==
  LET in_mmap   == map # NULL
      map_end   == Rd(s, map + OFF_map_addr) + Rd(s, map + OFF_map_size)
      tail_addr == block + bsize - WORD
  IN
    IF ~in_heap /\ ~in_mmap                                  THEN -EFAULT
    ELSE IF block % ARCH_ALIGNMENT # 0                       THEN -ENOENT
    ELSE IF in_heap /\ block < HEAP_START + METADATA_SIZE    THEN -ENOENT
    ELSE IF in_heap /\ block > s.heap_end - SIZEOF_HDR       THEN -ENOENT
    ELSE IF in_mmap /\ block > map_end - SIZEOF_HDR          THEN -ENOENT
    ELSE IF bsize < SIZEOF_HDR + WORD                        THEN -ENOENT
    ELSE IF bsize % ARCH_ALIGNMENT # 0                       THEN -ENOENT
    ELSE IF in_heap /\ block + bsize > s.heap_end            THEN -ENOENT
    ELSE IF in_mmap /\ block + bsize > map_end               THEN -ENOENT
    ELSE IF Fld(s, block, OFF_magic) # MAGIC_NUMBER          THEN -ENOENT
    ELSE IF in_heap /\ Fld(s, block, OFF_canary) # CANARY_VALUE
                                                             THEN -EPROTO
    ELSE IF in_heap /\ Rd(s, tail_addr) # CANARY_VALUE       THEN -EOVERFLOW
    ELSE IF in_mmap /\ tail_addr >= map_end                  THEN -ENOENT
    ELSE IF in_mmap /\ Rd(s, tail_addr) # CANARY_VALUE       THEN -EOVERFLOW
    ELSE EXIT_SUCCESS

MEM_validateBlock(s, block) ==
  IF block = NULL THEN -EINVAL
  ELSE IF block >= HEAP_START /\ block < s.heap_end
    THEN ValidateIn(s, block, TRUE, NULL, Fld(s, block, OFF_size))
    ELSE ValidateIn(s, block, FALSE, MapContaining(s, s.mmap_list, block, {}),
                    Fld(s, block, OFF_size))

(***************************************************************************)
(* MEM_getSizeClass, MEM_insertFreeBlock, MEM_removeFreeBlock              *)
(***************************************************************************)

MEM_getSizeClass(size) ==
  IF size <= 0 THEN -EINVAL
  ELSE IF (size + BYTES_PER_CLASS - 1) \div BYTES_PER_CLASS >= DEFAULT_NUM_BINS
    THEN DEFAULT_NUM_BINS - 1
    ELSE (size + BYTES_PER_CLASS - 1) \div BYTES_PER_CLASS

\* if (p) p->field = v
SetFldIf(s, p, off, v) == IF p # NULL THEN SetFld(s, p, off, v) ELSE s

\* block->fl_next = head; block->fl_prev = NULL; if (head) head->fl_prev =
\* block; free_lists[index] = block
InsertAt(s, block, index, head) ==
  SetFreeListHead(
    SetFldIf(SetFld(SetFld(s, block, OFF_fl_next, head),
                    block, OFF_fl_prev, NULL),
             head, OFF_fl_prev, block),
    index, block)

MEM_insertFreeBlock(s, block) ==
  IF MEM_getSizeClass(Fld(s, block, OFF_size)) < 0
    THEN [s |-> s, ret |-> -ENOMEM]
    ELSE [s |-> InsertAt(s, block, MEM_getSizeClass(Fld(s, block, OFF_size)),
                         FreeListHead(s, MEM_getSizeClass(
                                           Fld(s, block, OFF_size)))),
          ret |-> EXIT_SUCCESS]

\* if (fl_prev) fl_prev->fl_next = fl_next; else free_lists[index] = fl_next
UnlinkPrev(s, index, fl_prev, fl_next) ==
  IF fl_prev # NULL THEN SetFld(s, fl_prev, OFF_fl_next, fl_next)
  ELSE SetFreeListHead(s, index, fl_next)

RemoveAt(s, block, index, fl_prev, fl_next) ==
  SetFld(SetFld(SetFldIf(UnlinkPrev(s, index, fl_prev, fl_next),
                         fl_next, OFF_fl_prev, fl_prev),
                block, OFF_fl_next, NULL),
         block, OFF_fl_prev, NULL)

MEM_removeFreeBlock(s, block) ==
  IF MEM_getSizeClass(Fld(s, block, OFF_size)) < 0
    THEN [s |-> s, ret |-> -ENOMEM]
    ELSE [s |-> RemoveAt(s, block, MEM_getSizeClass(Fld(s, block, OFF_size)),
                         Fld(s, block, OFF_fl_prev),
                         Fld(s, block, OFF_fl_next)),
          ret |-> EXIT_SUCCESS]

(***************************************************************************)
(* MEM_growUserHeap                                                        *)
(***************************************************************************)
\* MEM_memset(p, 0, n) over whole words; of a mapped region only the first
\* and the last words are represented
ZeroRange(s, p, n) ==
  [s EXCEPT !.mem = [a \in DOMAIN s.mem |->
                       IF a >= p /\ a < p + n THEN 0 ELSE s.mem[a]]]

\* the header written over the fresh lease [old, old + inc)
GrownBlock(s, old, inc) ==
  [SetMarked(SetFree(SetFld(ZeroRange(s, old, inc), old, OFF_size, inc),
                     old, 1), old, 0)
     EXCEPT !.heap_end = old + inc,
            !.last_brk_start = old,
            !.last_brk_end = old + inc]

\* the lease recorded before the result of sbrk is looked at
GrowAfterSbrk_Recorded(r, inc) ==
  IF r.ret < 0
    THEN [s |-> [r.s EXCEPT !.last_brk_start = r.s.brk,
                            !.last_brk_end = r.s.brk + inc],
          ret |-> r.ret]
    ELSE [s |-> GrownBlock(r.s, r.ret, inc), ret |-> r.ret]

\* lines 1836-1850: nothing is written when sbrk failed
GrowAfterSbrk(r, inc) ==
  IF r.ret < 0 THEN r
  ELSE [s |-> GrownBlock(r.s, r.ret, inc), ret |-> r.ret]

MEM_growUserHeap(s, inc) == GrowAfterSbrk(MEM_sbrk(s, inc), inc)

(***************************************************************************)
(* Placement: MEM_findFirstFit, MEM_findNextFit, MEM_findBestFit.          *)
(* Each yields [ret, block, last]: the status, the block found and the     *)
(* value of last_allocated on return.  HANG is the status of a search      *)
(* whose loop never ends.                                                  *)
(***************************************************************************)
HANG == 1

Fits(s, current, size) ==
  /\ MEM_validateBlock(s, current) = EXIT_SUCCESS
  /\ FreeOf(s, current) # 0
  /\ Fld(s, current, OFF_size) >= size

RECURSIVE FirstFitScan(_, _, _, _, _)
\* the nested loops of MEM_findFirstFit from bin class_idx, cursor current
FirstFitScan(s, size, class_idx, current, seen) ==
  IF class_idx >= DEFAULT_NUM_BINS THEN [ret |-> -ENOMEM, block |-> NULL]
  ELSE IF current = NULL
    THEN IF class_idx + 1 >= DEFAULT_NUM_BINS
           THEN [ret |-> -ENOMEM, block |-> NULL]
           ELSE FirstFitScan(s, size, class_idx + 1,
                             FreeListHead(s, class_idx + 1), {})
  ELSE IF current \in seen THEN [ret |-> HANG, block |-> NULL]
  ELSE IF Fits(s, current, size)
    THEN [ret |-> EXIT_SUCCESS, block |-> current]
    ELSE FirstFitScan(s, size, class_idx, Fld(s, current, OFF_fl_next),
                      seen \cup {current})

\* *block is written only on success; last_allocated becomes found or stays
Found(r, block, found, kept) ==
  [ret   |-> r.ret,
   block |-> IF r.ret = EXIT_SUCCESS THEN r.block ELSE block,
   last  |-> IF r.ret = EXIT_SUCCESS /\ found THEN r.block ELSE kept]

MEM_findFirstFit(s, size, block) ==
  IF MEM_getSizeClass(size) < 0
    THEN [ret |-> -ENOMEM, block |-> block, last |-> s.last_allocated]
    ELSE Found(FirstFitScan(s, size, MEM_getSizeClass(size),
                            FreeListHead(s, MEM_getSizeClass(size)), {}),
               block, FALSE, s.last_allocated)

RECURSIVE NextFitWalk(_, _, _, _, _)
\* the do-while loop of MEM_findNextFit
NextFitWalk(s, size, start, current, seen) ==
  IF Fits(s, current, size) THEN [ret |-> EXIT_SUCCESS, block |-> current]
  ELSE LET nxt == IF Fld(s, current, OFF_next) # NULL
                    THEN Fld(s, current, OFF_next)
                    ELSE USER_START
       IN IF nxt = start THEN [ret |-> -ENOMEM, block |-> NULL]
          ELSE IF nxt \in seen THEN [ret |-> HANG, block |-> NULL]
          ELSE NextFitWalk(s, size, start, nxt, seen \cup {nxt})

MEM_findNextFit(s, size, block) ==
  IF \/ s.last_allocated = NULL
     \/ FreeOf(s, s.last_allocated) = 0
     \/ Fld(s, s.last_allocated, OFF_magic) # MAGIC_NUMBER
    THEN Found(MEM_findFirstFit(s, size, block), block, TRUE,
               s.last_allocated)
    ELSE Found(NextFitWalk(s, size, s.last_allocated, s.last_allocated,
                           {s.last_allocated}),
               block, TRUE, s.last_allocated)

RECURSIVE BestFitBin(_, _, _, _, _, _)
\* one iteration of the inner while of MEM_findBestFit, v the validation
BestFitStep(s, size, current, best, v, seen) ==
  BestFitBin(s, size, Fld(s, current, OFF_fl_next),
             IF /\ v = EXIT_SUCCESS
                /\ FreeOf(s, current) # 0
                /\ Fld(s, current, OFF_size) >= size
                /\ (best = NULL
                    \/ Fld(s, current, OFF_size) < Fld(s, best, OFF_size))
               THEN current ELSE best,
             v, seen \cup {current})

\* the inner while of MEM_findBestFit over one bin: [best, ret, hang]
BestFitBin(s, size, current, best, ret, seen) ==
  IF current = NULL THEN [best |-> best, ret |-> ret, hang |-> FALSE]
  ELSE IF current \in seen THEN [best |-> best, ret |-> ret, hang |-> TRUE]
  ELSE BestFitStep(s, size, current, best, MEM_validateBlock(s, current),
                   seen)

RECURSIVE BestFitScan(_, _, _, _)
\* after one bin: if (best_fit) break, else the next bin
BestFitAfterBin(s, size, iterator, r) ==
  IF r.hang THEN [ret |-> HANG, block |-> NULL]
  ELSE IF r.best # NULL THEN [ret |-> r.ret, block |-> r.best]
  ELSE BestFitScan(s, size, iterator + 1, r.ret)

BestFitScan(s, size, iterator, ret) ==
  IF iterator >= DEFAULT_NUM_BINS THEN [ret |-> -ENOMEM, block |-> NULL]
  ELSE BestFitAfterBin(s, size, iterator,
         BestFitBin(s, size, FreeListHead(s, iterator), NULL, ret, {}))

BestFitResult(r, last) == [ret |-> r.ret, block |-> r.block, last |-> last]

MEM_findBestFit(s, size, block) ==
  IF MEM_getSizeClass(size) < 0
    THEN [ret |-> -ENOMEM, block |-> NULL, last |-> s.last_allocated]
    ELSE BestFitResult(BestFitScan(s, size, MEM_getSizeClass(size),
                                   EXIT_SUCCESS),
                       s.last_allocated)

Find(strategy, s, size, block) ==
  CASE strategy = FIRST_FIT -> MEM_findFirstFit(s, size, block)
    [] strategy = NEXT_FIT  -> MEM_findNextFit(s, size, block)
    [] strategy = BEST_FIT  -> MEM_findBestFit(s, size, block)

(***************************************************************************)
(* MEM_splitBlock                                                          *)
(***************************************************************************)
SetTailCanary(s, block) ==
  Wr(s, block + Fld(s, block, OFF_size) - WORD, CANARY_VALUE)

\* block->free = 0; block->magic; block->canary; the tail canary
UsedHeader(s, block) ==
  SetTailCanary(
    SetFld(SetFld(SetFree(s, block, 0), block, OFF_magic, MAGIC_NUMBER),
           block, OFF_canary, CANARY_VALUE),
    block)

\* new_block->next = block->next; if (block->next) block->next->prev =
\* new_block; block->next = new_block
LinkAfter(s, block, new_block) ==
  SetFld(SetFldIf(SetFld(s, new_block, OFF_next, Fld(s, block, OFF_next)),
                  Fld(s, block, OFF_next), OFF_prev, new_block),
         block, OFF_next, new_block)

\* the remainder block written at new_block (lines 2390-2424)
Remainder(s, block, new_block, remaining_size) ==
  LET n1 == SetFld(s, new_block, OFF_magic, MAGIC_NUMBER)
      n2 == SetFld(n1, new_block, OFF_size, remaining_size)
      n3 == SetMarked(SetFree(n2, new_block, 1), new_block, 0)
      n4 == SetFld(n3, new_block, OFF_file, NULL)
      n5 == SetFld(n4, new_block, OFF_line, 0)
      n6 == SetFld(n5, new_block, OFF_var_name, NULL)
      n7 == SetFld(n6, new_block, OFF_prev, block)
      n8 == LinkAfter(n7, block, new_block)
      n9 == SetFld(n8, new_block, OFF_canary, CANARY_VALUE)
      n10 == SetTailCanary(n9, new_block)
      n11 == SetFld(n10, new_block, OFF_fl_next, NULL)
      n12 == SetFld(n11, new_block, OFF_fl_prev, NULL)
  IN MEM_insertFreeBlock(n12, new_block)

Carve(s, block, total_size) ==
  IF Fld(s, block, OFF_size) < total_size + MIN_BLOCK_SIZE
    THEN [s |-> UsedHeader(s, block), ret |-> EXIT_SUCCESS]
    ELSE Remainder(UsedHeader(SetFld(s, block, OFF_size, total_size), block),
                   block, block + total_size,
                   Fld(s, block, OFF_size) - total_size)

SplitRemoved(r, block, total_size) ==
  IF r.ret # EXIT_SUCCESS THEN r ELSE Carve(r.s, block, total_size)

SplitValidated(s, block, total_size, v) ==
  IF v # EXIT_SUCCESS THEN [s |-> s, ret |-> v]
  ELSE SplitRemoved(MEM_removeFreeBlock(s, block), block, total_size)

MEM_splitBlock(s, block, req_size) ==
  SplitValidated(s, block, ALIGN(req_size) + SIZEOF_HDR + WORD,
                 MEM_validateBlock(s, block))

(***************************************************************************)
(* MEM_mergeBlocks                                                         *)
(***************************************************************************)
\* into->size += gone->size
AddSize(s, into, gone) ==
  SetFld(s, into, OFF_size, Fld(s, into, OFF_size) + Fld(s, gone, OFF_size))

\* into->next = gone->next
CopyNext(s, into, gone) == SetFld(s, into, OFF_next, Fld(s, gone, OFF_next))

\* if (gone->next) gone->next->prev = into
FixBack(s, into, gone) == SetFldIf(s, Fld(s, gone, OFF_next), OFF_prev, into)

\* the four statements that fold the block gone into the block into
Absorb(s, into, gone) ==
  SetTailCanary(FixBack(CopyNext(AddSize(s, into, gone), into, gone),
                        into, gone),
                into)

\* after MEM_removeFreeBlock(neighbour): return on failure, else absorb
MergeRemoved(r, into, gone, block) ==
  IF r.ret # EXIT_SUCCESS
    THEN [s |-> r.s, ret |-> r.ret, stop |-> TRUE, block |-> block]
    ELSE [s |-> Absorb(r.s, into, gone), ret |-> r.ret, stop |-> FALSE,
          block |-> into]

\* if (ret == EXIT_SUCCESS && neighbour->free) { remove; absorb }
MergeWith(s, block, neighbour, into, gone, v) ==
  IF v = EXIT_SUCCESS /\ FreeOf(s, neighbour) # 0
    THEN MergeRemoved(MEM_removeFreeBlock(s, neighbour), into, gone, block)
    ELSE [s |-> s, ret |-> v, stop |-> FALSE, block |-> block]

\* lines 2487-2518: the neighbour found at block + block->size
MergeNext(s, block) ==
  IF block + Fld(s, block, OFF_size) + SIZEOF_HDR <= s.heap_end
    THEN MergeWith(s, block, block + Fld(s, block, OFF_size),
                   block, block + Fld(s, block, OFF_size),
                   MEM_validateBlock(s, block + Fld(s, block, OFF_size)))
    ELSE [s |-> s, ret |-> EXIT_SUCCESS, stop |-> FALSE, block |-> block]

\* lines 2520-2552: the neighbour named by block->prev; yields the block
\* that is reinserted
MergePrev(s, block) ==
  IF Fld(s, block, OFF_prev) # NULL
    THEN MergeWith(s, block, Fld(s, block, OFF_prev),
                   Fld(s, block, OFF_prev), block,
                   MEM_validateBlock(s, Fld(s, block, OFF_prev)))
    ELSE [s |-> s, ret |-> EXIT_SUCCESS, stop |-> FALSE, block |-> block]

\* lines 2554-2559: clear the list links of the merged block and insert it
MergeInsert(b) ==
  IF b.stop THEN [s |-> b.s, ret |-> b.ret]
  ELSE MEM_insertFreeBlock(
         SetFld(SetFld(b.s, b.block, OFF_fl_next, NULL),
                b.block, OFF_fl_prev, NULL),
         b.block)

MergeAfterNext(a, block) ==
  IF a.stop THEN [s |-> a.s, ret |-> a.ret]
  ELSE MergeInsert(MergePrev(a.s, block))

MergeValidated(s, block, v) ==
  IF v # EXIT_SUCCESS THEN [s |-> s, ret |-> v]
  ELSE MergeAfterNext(MergeNext(s, block), block)

MEM_mergeBlocks(s, block) ==
  MergeValidated(s, block, MEM_validateBlock(s, block))

(***************************************************************************)
(* MEM_allocatorMalloc, MEM_mapAlloc, MEM_mapFree, MEM_allocatorFree.      *)
(* A returned pointer is an address, NULL, or a negative errno (PTR_ERR).  *)
(***************************************************************************)
RECURSIVE MEM_allocatorMalloc(_, _, _)
RECURSIVE MEM_allocatorFree(_, _)

\* mmap(NULL, map_size, ...): the lowest unused region, zero-filled;
\* MAP_FAILED when the address space of the model is used up
OsMmap(s, map_size) ==
  LET avail == MapBases \ s.mapped
  IN IF avail = {} THEN [s |-> [s EXCEPT !.denied = TRUE], ret |-> -1]
     ELSE LET b == CHOOSE x \in avail : \A y \in avail : x <= y
          IN [s |-> [s EXCEPT !.mapped = @ \cup {b},
                              !.mem = [a \in DOMAIN s.mem |->
                                         IF a >= b /\ a < b + map_size
                                           THEN 0 ELSE s.mem[a]]],
              ret |-> b]

OsMunmap(s, addr) == [s EXCEPT !.mapped = @ \ {addr}]

\* lines 1927-1931: the node filled in and pushed on allocator->mmap_list
PushMap(s, map_block, ptr, map_size) ==
  [Wr(Wr(Wr(s, map_block + OFF_map_addr, ptr),
         map_block + OFF_map_size, map_size),
      map_block + OFF_map_next, s.mmap_list)
     EXCEPT !.mmap_list = map_block]

\* lines 1933-1952: the header written at the start of the region
MapHeader(s, ptr, map_size) ==
  LET h1 == SetFld(s, ptr, OFF_magic, MAGIC_NUMBER)
      h2 == SetFld(h1, ptr, OFF_size, map_size)
      h3 == SetMarked(SetFree(h2, ptr, 0), ptr, 1)
      h4 == SetFld(h3, ptr, OFF_prev, NULL)
      h5 == SetFld(h4, ptr, OFF_next, NULL)
      h6 == SetFld(h5, ptr, OFF_file, NULL)
      h7 == SetFld(h6, ptr, OFF_line, 0)
      h8 == SetFld(h7, ptr, OFF_var_name, NULL)
  IN Wr(h8, ptr + map_size - WORD, CANARY_VALUE)

\* after the node allocation: unmap on failure, else record the region
MapAllocNode(a, ptr, map_size) ==
  IF a.ret = NULL THEN [s |-> OsMunmap(a.s, ptr), ret |-> -ENOMEM]
  ELSE [s |-> MapHeader(PushMap(a.s, a.ret, ptr, map_size), ptr, map_size),
        ret |-> ptr]

MapAllocMapped(m, map_size) ==
  IF m.ret = -1 THEN [s |-> m.s, ret |-> -EIO]
  ELSE MapAllocNode(MEM_allocatorMalloc(m.s, SIZEOF_MMAP, FIRST_FIT),
                    m.ret, map_size)

MEM_mapAlloc(s, total_size) ==
  MapAllocMapped(OsMmap(s, MapSize(total_size)), MapSize(total_size))

\* lines 2648-2668: the header MEM_allocatorMalloc writes over the region
MappedHeader(s, block, total_size) ==
  LET b1 == SetFld(s, block, OFF_magic, MAGIC_NUMBER)
      b2 == SetFld(b1, block, OFF_size, total_size)
      b3 == SetMarked(SetFree(b2, block, 0), block, 0)
      b4 == SetFld(b3, block, OFF_next, NULL)
      b5 == SetFld(b4, block, OFF_prev, NULL)
      b6 == SetFld(b5, block, OFF_canary, CANARY_VALUE)
      b7 == Wr(b6, block + total_size - WORD, CANARY_VALUE)
      b8 == SetFld(b7, block, OFF_file, DIAG_FILE)
      b9 == SetFld(b8, block, OFF_line, DIAG_LINE)
  IN SetFld(b9, block, OFF_var_name, DIAG_VAR)

\* lines 2637-2670: if (raw_mmap == NULL) fail, else header and payload
MallocMapped(m, total_size) ==
  IF m.ret = NULL THEN [s |-> m.s, ret |-> -ENOMEM]
  ELSE [s |-> MappedHeader(m.s, m.ret, total_size),
        ret |-> m.ret + SIZEOF_HDR]

\* lines 2684-2703: the header of the block seeded over the new lease
SeedHeader(s, block, total_size) ==
  LET s1 == SetFld([s EXCEPT !.last_brk_start = block,
                             !.last_brk_end = block + total_size],
                   block, OFF_magic, MAGIC_NUMBER)
      s2 == SetFld(s1, block, OFF_size, total_size)
      s3 == SetMarked(SetFree(s2, block, 1), block, 0)
      s4 == SetFld(s3, block, OFF_next, NULL)
      s5 == SetFld(s4, block, OFF_prev, NULL)
      s6 == SetFld(s5, block, OFF_canary, CANARY_VALUE)
      s7 == Wr(s6, block + total_size - WORD, CANARY_VALUE)
      s8 == SetFld(s7, block, OFF_fl_next, NULL)
  IN SetFld(s8, block, OFF_fl_prev, NULL)

SeedInserted(i, block) == [s |-> i.s, ret |-> i.ret, block |-> block]

GrowSeed(g, total_size) ==
  IF g.ret < 0 THEN [s |-> g.s, ret |-> -ENOMEM, block |-> NULL]
  ELSE SeedInserted(
         MEM_insertFreeBlock(SeedHeader(g.s, g.ret, total_size), g.ret),
         g.ret)

\* the payload address off by half a word
PlaceSplit_Skewed(sp, block) ==
  IF sp.ret # EXIT_SUCCESS THEN [s |-> sp.s, ret |-> NULL]
  ELSE [s |-> sp.s, ret |-> block + SIZEOF_HDR + WORD \div 2]

\* lines 2728-2733: the diagnostics written and the payload returned
PlaceSplit(sp, block) ==
  IF sp.ret # EXIT_SUCCESS THEN [s |-> sp.s, ret |-> NULL]
  ELSE [s |-> SetFld(SetFld(SetFld(sp.s, block, OFF_file, DIAG_FILE),
                            block, OFF_line, DIAG_LINE),
                     block, OFF_var_name, DIAG_VAR),
        ret |-> block + SIZEOF_HDR]

\* lines 2720-2733: split the block found and return its payload
MallocPlace(s, size, strategy, block) ==
  PlaceSplit(
    MEM_splitBlock(
      Wr(IF strategy = NEXT_FIT THEN [s EXCEPT !.last_allocated = block]
         ELSE s,
         HEAP_START + OFF_top_chunk, block),
      block, size),
    block)

Hung(s) == [s EXCEPT !.fate = "hang"]

\* the search left last_allocated at f.last
Searched(s, f) == [s EXCEPT !.last_allocated = f.last]

\* lines 2711-2733: the second search, over the grown heap
MallocRefound(s, size, strategy, f2) ==
  IF f2.ret = HANG THEN [s |-> Hung(Searched(s, f2)), ret |-> NULL]
  ELSE IF f2.ret # EXIT_SUCCESS
    THEN [s |-> Searched(s, f2),
          ret |-> IF f2.ret = -ENOMEM THEN -ENOMEM ELSE -EIO]
    ELSE MallocPlace(Searched(s, f2), size, strategy, f2.block)

MallocGrown(g, size, total_size, strategy) ==
  IF g.ret = -ENOMEM /\ g.block = NULL THEN [s |-> g.s, ret |-> -ENOMEM]
  ELSE IF g.ret # EXIT_SUCCESS THEN [s |-> g.s, ret |-> NULL]
  ELSE MallocRefound(g.s, size, strategy,
                     Find(strategy, g.s, total_size, g.block))

\* lines 2672-2733: after the first search
MallocFound(s, size, total_size, strategy, f) ==
  IF f.ret = HANG THEN [s |-> Hung(s), ret |-> NULL]
  ELSE IF f.ret = -ENOMEM
    THEN MallocGrown(GrowSeed(MEM_growUserHeap(Searched(s, f), total_size),
                              total_size),
                     size, total_size, strategy)
  ELSE IF f.ret # EXIT_SUCCESS THEN [s |-> Searched(s, f), ret |-> -EIO]
  ELSE MallocPlace(Searched(s, f), size, strategy, f.block)

MEM_allocatorMalloc(s, size, strategy) ==
  IF size <= 0 THEN [s |-> s, ret |-> -EINVAL]
  ELSE IF size > MMAP_THRESHOLD
    THEN MallocMapped(MEM_mapAlloc(s, ALIGN(size) + SIZEOF_HDR + WORD),
                      ALIGN(size) + SIZEOF_HDR + WORD)
    ELSE MallocFound(s, size, ALIGN(size) + SIZEOF_HDR + WORD, strategy,
                     Find(strategy, s, ALIGN(size) + SIZEOF_HDR + WORD, NULL))

RECURSIVE MapWithAddr(_, _, _, _)
\* lines 2992-2999: the first map-list node whose addr is the block
MapWithAddr(s, map, block, seen) ==
  IF map = NULL \/ map \in seen THEN NULL
  ELSE IF Rd(s, map + OFF_map_addr) = block THEN map
  ELSE MapWithAddr(s, Rd(s, map + OFF_map_next), block, seen \cup {map})

\* a mmap_t ** is NULL for &allocator->mmap_list, else the address of a next
RdRef(s, ref) == IF ref = NULL THEN s.mmap_list ELSE Rd(s, ref)
WrRef(s, ref, v) == IF ref = NULL THEN [s EXCEPT !.mmap_list = v]
                    ELSE Wr(s, ref, v)

RECURSIVE MapFreeLoop(_, _, _, _)

\* munmap(addr, size); *map_ref = to_free->next
Unlink(s, map_ref, to_free) ==
  WrRef(s, map_ref, Rd(s, to_free + OFF_map_next))

\* after MEM_allocatorFree(to_free): return on failure, else go on
MapFreeNext(f, map_ref, addr, fuel) ==
  IF f.ret # EXIT_SUCCESS THEN f
  ELSE MapFreeLoop(f.s, map_ref, addr, fuel - 1)

MapFreeAt(s, map_ref, addr, fuel, cur) ==
  IF cur = NULL THEN [s |-> s, ret |-> EXIT_SUCCESS]
  ELSE IF fuel = 0 THEN [s |-> Hung(s), ret |-> EXIT_SUCCESS]
  ELSE IF Rd(s, cur + OFF_map_addr) = addr
    THEN MapFreeNext(
           MEM_allocatorFree(Unlink(OsMunmap(s, addr), map_ref, cur), cur),
           map_ref, addr, fuel)
    ELSE MapFreeLoop(s, cur + OFF_map_next, addr, fuel - 1)

\* lines 2011-2037: the while loop over the map list
MapFreeLoop(s, map_ref, addr, fuel) ==
  MapFreeAt(s, map_ref, addr, fuel, RdRef(s, map_ref))

MEM_mapFree(s, addr) ==
  IF addr = NULL THEN [s |-> s, ret |-> -EINVAL]
  ELSE MapFreeLoop(s, NULL, addr, Cardinality(MapBases) + 1)

\* lines 3055-3074: after sbrk(-lease)
\* the block left out of every bin
ShrinkRefused_Dropped(s, block) == [s |-> s, ret |-> EXIT_SUCCESS]

\* lines 3070-3077: sbrk failed, the block goes back to its bin
ShrinkRefused(s, block) ==
  [s |-> MEM_insertFreeBlock(s, block).s, ret |-> EXIT_SUCCESS]

\* the lease record kept
ShrinkBreak_KeepLease(old, heap_end, block, lease) ==
  IF old.ret >= 0
    THEN [s |-> [old.s EXCEPT !.heap_end = heap_end - lease,
                              !.last_allocated = HEAP_START],
          ret |-> EXIT_SUCCESS]
    ELSE ShrinkRefused(old.s, block)

\* lines 3055-3077: the break lowered by the lease
ShrinkBreak(old, heap_end, block, lease) ==
  IF old.ret >= 0
    THEN [s |-> [old.s EXCEPT !.heap_end = heap_end - lease,
                              !.last_brk_start = NULL,
                              !.last_brk_end = NULL,
                              !.last_allocated = HEAP_START],
          ret |-> EXIT_SUCCESS]
    ELSE ShrinkRefused(old.s, block)

ShrinkRemoved(r, block, lease) ==
  IF r.ret # EXIT_SUCCESS THEN r
  ELSE ShrinkBreak(MEM_sbrk(r.s, -lease), r.s.heap_end, block, lease)

\* lines 3031-3080: give the last lease back when the block ends the heap
FreeShrink(s, block) ==
  LET lease == s.last_brk_end - s.last_brk_start
  IN IF /\ block + Fld(s, block, OFF_size) = s.heap_end
        /\ s.brk = s.heap_end
        /\ s.last_brk_start # NULL
        /\ s.last_brk_end # NULL
        /\ s.last_brk_end = s.heap_end
        /\ lease > 0
        /\ Fld(s, block, OFF_size) >= lease
       THEN ShrinkRemoved(MEM_removeFreeBlock(s, block), block, lease)
       ELSE [s |-> s, ret |-> EXIT_SUCCESS]

\* the free flag never consulted
AlreadyFree_Unchecked(s, block) == FALSE

\* lines 3009-3015: the double-free check
AlreadyFree(s, block) == FreeOf(s, block) # 0

\* lines 3017-3023: free = 1, marked = 0 and the diagnostics
Released(s, block) ==
  SetFld(SetFld(SetFld(SetMarked(SetFree(s, block, 1), block, 0),
                       block, OFF_file, DIAG_FILE),
                block, OFF_line, DIAG_LINE),
         block, OFF_var_name, DIAG_VAR)

FreeMerged(m, block) ==
  IF m.ret # EXIT_SUCCESS THEN m ELSE FreeShrink(m.s, block)

FreeValidated(s, block, v) ==
  IF v # EXIT_SUCCESS THEN [s |-> s, ret |-> v]
  ELSE IF AlreadyFree(s, block) THEN [s |-> s, ret |-> -EINVAL]
  ELSE FreeMerged(MEM_mergeBlocks(Released(s, block), block), block)

FreeBlock(s, block, map) ==
  IF map # NULL THEN MEM_mapFree(s, Rd(s, map + OFF_map_addr))
  ELSE FreeValidated(s, block, MEM_validateBlock(s, block))

MEM_allocatorFree(s, ptr) ==
  IF ptr = NULL THEN [s |-> s, ret |-> -EINVAL]
  ELSE FreeBlock(s, ptr - SIZEOF_HDR,
                 MapWithAddr(s, s.mmap_list, ptr - SIZEOF_HDR, {}))

(***************************************************************************)
(* MEM_memcpy, MEM_allocatorRealloc, MEM_allocatorCalloc                   *)
(***************************************************************************)
\* nothing copied
MEM_memcpy_Nothing(s, dest, src, size) == [s |-> s, ret |-> dest]

\* whole words copied from src to dest; a dest that is an error pointer
\* lies in no mapped page
MEM_memcpy(s, dest, src, size) ==
  IF dest = NULL \/ src = NULL \/ size <= 0 THEN [s |-> s, ret |-> -EINVAL]
  ELSE IF dest < 0 THEN [s |-> [s EXCEPT !.fate = "segv"], ret |-> dest]
  ELSE [s |-> [s EXCEPT !.mem = [a \in DOMAIN s.mem |->
                                   IF a >= dest /\ a < dest + size
                                     THEN Rd(s, src + (a - dest))
                                     ELSE s.mem[a]]],
        ret |-> dest]

\* lines 2840-2849: the old block freed; new_ptr is returned whatever
\* MEM_allocatorFree says
ReallocCopied(c, ptr, new_ptr) ==
  IF c.ret # new_ptr THEN [s |-> c.s, ret |-> -EINVAL]
  ELSE [s |-> MEM_allocatorFree(c.s, ptr).s, ret |-> new_ptr]

\* lines 2836-2842: if (new_ptr != NULL) copy old_size bytes
ReallocMalloced(m, ptr, old_size) ==
  IF m.ret = NULL THEN m
  ELSE ReallocCopied(MEM_memcpy(m.s, m.ret, ptr, old_size), ptr, m.ret)

\* a new block whatever the size of the old one
ReallocValidated_AlwaysMove(s, ptr, new_size, strategy, v, old_size) ==
  IF v # EXIT_SUCCESS THEN [s |-> s, ret |-> NULL]
  ELSE ReallocMalloced(MEM_allocatorMalloc(s, new_size, strategy),
                       ptr, old_size)

\* lines 2818-2835: the block validated; it is kept if it is large enough
ReallocValidated(s, ptr, new_size, strategy, v, old_size) ==
  IF v # EXIT_SUCCESS THEN [s |-> s, ret |-> NULL]
  ELSE IF old_size >= new_size THEN [s |-> s, ret |-> ptr]
  ELSE ReallocMalloced(MEM_allocatorMalloc(s, new_size, strategy),
                       ptr, old_size)

MEM_allocatorRealloc(s, ptr, new_size, strategy) ==
  IF new_size <= 0 THEN [s |-> s, ret |-> -EINVAL]
  ELSE IF ptr = NULL THEN MEM_allocatorMalloc(s, new_size, strategy)
  ELSE ReallocValidated(s, ptr, new_size, strategy,
                        MEM_validateBlock(s, ptr - SIZEOF_HDR),
                        Fld(s, ptr - SIZEOF_HDR, OFF_size)
                          - SIZEOF_HDR - WORD)

\* the payload left as it is
CallocZeroed_Skipped(m) == m

\* lines 2909-2917: if (ptr == NULL) return, else the whole payload of the
\* block is cleared; the header of an error pointer lies in no mapped page
CallocZeroed(m) ==
  IF m.ret = NULL THEN m
  ELSE IF m.ret < 0 THEN [s |-> [m.s EXCEPT !.fate = "segv"], ret |-> m.ret]
  ELSE [s |-> ZeroRange(m.s, m.ret,
                        Fld(m.s, m.ret - SIZEOF_HDR, OFF_size)
                          - SIZEOF_HDR - WORD),
        ret |-> m.ret]

MEM_allocatorCalloc(s, size, strategy) ==
  IF size = 0 THEN [s |-> s, ret |-> -EINVAL]
  ELSE CallocZeroed(MEM_allocatorMalloc(s, size, strategy))

(***************************************************************************)
(* The collector: MEM_setInitialMarks, MEM_gcMark, MEM_gcSweep.            *)
(***************************************************************************)
\* stands for 2^64, the width of uintptr_t and size_t: every word of the
\* model is below it and sums of two words wrap at it
W64 == 268435456

\* line 3141: block->size >= sizeof(block_header_t)
\*            && (heap_ptr + block->size) <= heap_end, the sum in 64 bits
ClearFits(s, heap_ptr) ==
  /\ Fld(s, heap_ptr, OFF_size) >= SIZEOF_HDR
  /\ (heap_ptr + Fld(s, heap_ptr, OFF_size)) % W64 <= s.heap_end

\* lines 3144 and 3148: heap_ptr after one turn of the loop
ClearNext(s, heap_ptr) ==
  IF ClearFits(s, heap_ptr)
    THEN (heap_ptr + Fld(s, heap_ptr, OFF_size)) % W64
    ELSE heap_ptr + SIZEOF_HDR

\* line 3143: block->marked = 0u
ClearMark(s, heap_ptr) ==
  IF ClearFits(s, heap_ptr) THEN SetMarked(s, heap_ptr, 0) ELSE s

\* the cursors visited since the memory last changed
ClearSeen(s, heap_ptr, seen) ==
  IF ClearMark(s, heap_ptr) = s THEN seen \cup {heap_ptr} ELSE {heap_ptr}

RECURSIVE InitMarksHeap(_, _, _)
\* lines 3137-3152: the size walk that clears the marks; a cursor that
\* comes back to a place it left with the same memory never leaves the loop
InitMarksHeap(s, heap_ptr, seen) ==
  IF s.fate # "run" \/ heap_ptr >= s.heap_end THEN s
  ELSE IF heap_ptr \in seen THEN Hung(s)
  ELSE InitMarksHeap(ClearMark(s, heap_ptr), ClearNext(s, heap_ptr),
                     ClearSeen(s, heap_ptr, seen))

RECURSIVE InitMarksMaps(_, _, _)
\* map = map->next
InitMarksNext(s, map, seen) ==
  InitMarksMaps(s, Rd(s, map + OFF_map_next), seen \cup {map})

\* lines 3154-3163
InitMarksMaps(s, map, seen) ==
  IF map = NULL \/ map \in seen THEN s
  ELSE InitMarksNext(SetMarked(SetMarked(s, Rd(s, map + OFF_map_addr), 0),
                               map - SIZEOF_HDR, 1),
                     map, seen)

\* the marks of the heap blocks cleared, the map list not visited
MEM_setInitialMarks_HeapOnly(s) == InitMarksHeap(s, USER_START, {})

MEM_setInitialMarks(s) ==
  InitMarksMaps(InitMarksHeap(s, USER_START, {}), s.mmap_list, {})

RECURSIVE MarkMaps(_, _, _, _)
\* lines 3285-3302: the first live mapping whose payload holds the word
MarkMaps(s, map, block_addr, seen) ==
  IF map = NULL \/ map \in seen THEN s
  ELSE LET block == Rd(s, map + OFF_map_addr)
           payload_start == block + SIZEOF_HDR
           payload_end == block + Rd(s, map + OFF_map_size) - WORD
       IN IF block_addr >= payload_start /\ block_addr < payload_end
             /\ FreeOf(s, block) = 0
            THEN SetMarked(s, block, 1)
            ELSE MarkMaps(s, Rd(s, map + OFF_map_next), block_addr,
                          seen \cup {map})

\* lines 3255-3283: the word as an address inside the heap
MarkHeapWord(s, block_addr) ==
  IF block_addr >= USER_START /\ block_addr < s.heap_end
    THEN LET block == block_addr - SIZEOF_HDR
             payload_start == block + SIZEOF_HDR
             payload_end == block + Fld(s, block, OFF_size) - WORD
         IN IF block_addr >= payload_start
               /\ block_addr < payload_end
               /\ MEM_validateBlock(s, block) = EXIT_SUCCESS
               /\ FreeOf(s, block) = 0
              THEN SetMarked(s, block, 1)
              ELSE SetMarked(s, block, 0)
    ELSE s

MarkMapWord(s, block_addr) == MarkMaps(s, s.mmap_list, block_addr, {})

\* lines 3255-3303: one word of the scanned stack
MarkWord(s, stack_frame) ==
  IF stack_frame = NULL THEN s
  ELSE MarkMapWord(MarkHeapWord(s, stack_frame), stack_frame)

RECURSIVE MarkStack(_, _, _)
MarkStack(s, words, i) ==
  IF i > Len(words) THEN s
  ELSE MarkStack(MarkWord(s, words[i]), words, i + 1)

\* words: the stack of main_thread between the bounds of MEM_stackBounds
MEM_gcMark(s, words) == MarkStack(MEM_setInitialMarks(s), words, 1)

\* an access to a header the break no longer covers either goes through
\* or faults
Touch(s, block, fault) ==
  IF fault /\ block >= USER_START /\ block + SIZEOF_HDR > s.brk
    THEN [s EXCEPT !.fate = "segv"] ELSE s

RECURSIVE SweepHeap(_, _, _)
\* lines 3389-3400: an unmarked block in use is freed and flagged free
SweepBlock(s, block, fault) ==
  IF FreeOf(s, block) = 0 /\ MarkedOf(s, block) = 0
    THEN SetFree(Touch(MEM_allocatorFree(s, block + SIZEOF_HDR).s,
                       block, fault),
                 block, 1)
    ELSE s

\* heap_ptr += block->size
SweepAdvance(s, block, fault) ==
  SweepHeap(s, block + Fld(s, block, OFF_size), fault)

\* lines 3375-3411
SweepHeap(s, heap_ptr, fault) ==
  IF heap_ptr >= s.heap_end THEN s
  ELSE IF Fld(s, heap_ptr, OFF_size) >= SIZEOF_HDR
          /\ Fld(s, heap_ptr, OFF_size) <= s.heap_end - heap_ptr
    THEN SweepAdvance(SetMarked(SweepBlock(s, heap_ptr, fault), heap_ptr, 0),
                      heap_ptr, fault)
    ELSE SweepHeap(s, heap_ptr + SIZEOF_HDR, fault)

RECURSIVE SweepMaps(_, _, _)
\* lines 3413-3447
SweepMaps(s, scan, fuel) ==
  LET map == RdRef(s, scan)
  IN IF map = NULL THEN s
     ELSE IF fuel = 0 THEN Hung(s)
     ELSE
       LET block == Rd(s, map + OFF_map_addr)
       IN IF MarkedOf(s, block) = 0 /\ FreeOf(s, block) = 0
            THEN LET s1 == WrRef(s, scan, Rd(s, map + OFF_map_next))
                     s2 == OsMunmap(s1, block)
                     f == MEM_allocatorFree(s2, map)
                 IN SweepMaps(f.s, scan, fuel - 1)
            ELSE SweepMaps(SetMarked(s, block, 0), map + OFF_map_next,
                           fuel - 1)

MEM_gcSweep(s, fault) ==
  SweepMaps(SweepHeap(s, USER_START, fault), NULL, Cardinality(MapBases) + 1)

(***************************************************************************)
(* MEM_allocatorInit applied to the empty process image.                   *)
(***************************************************************************)
Blank ==
  [mem |-> [a \in Addrs |-> 0], heap_end |-> HEAP_START, brk |-> HEAP_START,
   last_allocated |-> NULL, last_brk_start |-> NULL, last_brk_end |-> NULL,
   mmap_list |-> NULL, mapped |-> {}, fate |-> "run", denied |-> FALSE,
   refuse |-> FALSE]

\* lines 1741-1760: the bin array leased, recorded and cleared
InitBins(g, arena) ==
  ZeroRange(Wr(g.s, arena + OFF_bins, g.ret), g.ret, DEFAULT_NUM_BINS * WORD)

\* lines 1722-1739: the arena leased and its bin count set
InitArena(g) ==
  InitBins(MEM_growUserHeap(Wr(g.s, g.ret + OFF_num_bins, DEFAULT_NUM_BINS),
                            DEFAULT_NUM_BINS * WORD),
           g.ret)

\* lines 1684-1716: base = MEM_sbrk(0), and the break raised by pad to the
\* next multiple of ARCH_ALIGNMENT
InitPadded(s, pad) == IF pad # 0 THEN MEM_sbrk(s, pad).s ELSE s

MEM_allocatorInit(base) ==
  [InitArena(
     MEM_growUserHeap(
       InitPadded([Blank EXCEPT !.brk = base, !.heap_end = base],
                  (ARCH_ALIGNMENT - (base % ARCH_ALIGNMENT)) % ARCH_ALIGNMENT),
       SIZEOF_ARENA))
     EXCEPT !.mmap_list = NULL]

(***************************************************************************)
(* The process: one mutator thread (thread 0) calling the public           *)
(* functions, and the collector threads created by MEM_enableGc.           *)
(***************************************************************************)
VARIABLES
  mem, heap_end, brk, last_allocated, last_brk_start, last_brk_end,
  mmap_list, mapped,
  fate,               \* "run", "segv" or "hang"
  gc_thread_started, gc_running, gc_exit,
  gc_lock,            \* the set of threads holding gc_lock (at most one)
  wpc,                \* where each collector thread is in MEM_gcThreadFunc
  mpc,                \* where the mutator is in MEM_stopGc ("idle" outside)
  stack,              \* the pointer-holding words of the mutator stack
  last,               \* the last public call and what it returned
  freed,              \* pointers freed with success and no alloc call since
  rooted,             \* slots holding a block since its allocation
  inuse,              \* payloads handed out and not yet released
  garbage,            \* per thread: what its running cycle must reclaim
  swept,              \* what the cycle that just completed had to reclaim
  calls               \* public calls made so far

allocVars == <<mem, heap_end, brk, last_allocated, last_brk_start,
               last_brk_end, mmap_list, mapped>>
gcVars == <<gc_thread_started, gc_running, gc_exit, gc_lock, wpc, mpc>>
histVars == <<stack, last, freed, rooted, inuse, garbage, swept, calls>>
vars == <<allocVars, fate, gcVars, histVars>>

MAIN == 0
Workers == 1 .. MaxWorkers
Threads == {MAIN} \cup Workers
Slots == 1 .. StackSlots

St ==
  [mem |-> mem, heap_end |-> heap_end, brk |-> brk,
   last_allocated |-> last_allocated, last_brk_start |-> last_brk_start,
   last_brk_end |-> last_brk_end, mmap_list |-> mmap_list,
   mapped |-> mapped, fate |-> fate, denied |-> FALSE, refuse |-> FALSE]

\* the call ran to its end on state s, or the process crashed or hung in it
Commit(s) ==
  IF s.fate = "run"
    THEN /\ mem' = s.mem
         /\ heap_end' = s.heap_end
         /\ brk' = s.brk
         /\ last_allocated' = s.last_allocated
         /\ last_brk_start' = s.last_brk_start
         /\ last_brk_end' = s.last_brk_end
         /\ mmap_list' = s.mmap_list
         /\ mapped' = s.mapped
         /\ fate' = "run"
    ELSE /\ UNCHANGED allocVars
         /\ fate' = s.fate

NoCall ==
  [op |-> "none", ptr |-> NULL, small |-> FALSE, size |-> 0, room |-> FALSE,
   found |-> 0, took |-> 0, lease |-> 0, end |-> 0,
   live |-> FALSE, data |-> {}, dirty |-> FALSE,
   ret |-> 0, denied |-> FALSE, grew |-> FALSE, payload |-> 0, node |-> NULL,
   kept |-> FALSE, twice |-> FALSE,
   again |-> FALSE, same |-> FALSE, fresh |-> FALSE, reuse |-> FALSE]

\* the block of payload p is no longer allocated
Reclaimed(s, p) ==
  LET block == p - SIZEOF_HDR
  IN IF block \in MapBases
       THEN block \notin s.mapped /\ MapWithAddr(s, s.mmap_list, block, {}) = NULL
       ELSE FreeOf(s, block) # 0

\* the process right after MEM_allocatorInit returned s
Started(s) ==
  /\ mem = s.mem
  /\ heap_end = s.heap_end
  /\ brk = s.brk
  /\ last_allocated = s.last_allocated
  /\ last_brk_start = s.last_brk_start
  /\ last_brk_end = s.last_brk_end
  /\ mmap_list = s.mmap_list
  /\ mapped = {}
  /\ fate = "run"
  /\ gc_thread_started = FALSE
  /\ gc_running = FALSE
  /\ gc_exit = FALSE
  /\ gc_lock = {}
  /\ wpc = [w \in Workers |-> "none"]
  /\ mpc = "idle"
  /\ stack = [i \in Slots |-> NULL]
  /\ last = NoCall
  /\ freed = {}
  /\ rooted = {}
  /\ inuse = {}
  /\ garbage = [t \in Threads |-> {}]
  /\ swept = {}
  /\ calls = 0

\* the break the process starts with need not be aligned
Init ==
  \E base \in (HEAP_START - (ARCH_ALIGNMENT - 1)) .. HEAP_START :
    Started(MEM_allocatorInit(base))

\* a call of the mutator disturbs every cycle that is between mark and sweep
Disturb(t) == [u \in Threads |-> IF u = t THEN garbage[u] ELSE {}]

\* the word of the stack that receives the next result: the first one that
\* holds no block allocated into it and still owned (it is NULL, an error
\* pointer or a pointer already freed); with none the result stays in no
\* word of the stack
Target == IF \E i \in Slots : i \notin rooted
            THEN CHOOSE i \in Slots :
                   i \notin rooted /\ \A j \in Slots : j \notin rooted => i <= j
            ELSE 0

\* the caller's side of an allocation of n bytes that returned r, the result
\* going to stack word i
Allocated(op, n, r, i) ==
  LET ok == r.s.fate = "run"
      block == r.ret - SIZEOF_HDR
  IN /\ Commit(r.s)
     /\ stack' = IF ok /\ i # 0 THEN [stack EXCEPT ![i] = r.ret] ELSE stack
     /\ last' = IF ok
          THEN [NoCall EXCEPT
                  !.op = op, !.small = n < MMAP_THRESHOLD,
                  !.size = n,
                  \* the operating system had a region left to map and
                  \* room above the break for a node of the map list
                  !.room = /\ MapBases \ mapped # {}
                           /\ brk + TotalSize(SIZEOF_MMAP) <= BRK_LIMIT,
                  \* the size of the free block the request was placed
                  \* in (0 for a block that did not exist), its size now
                  !.found = IF /\ block >= USER_START /\ block < heap_end
                               /\ FreeOf(St, block) # 0
                              THEN Fld(St, block, OFF_size) ELSE 0,
                  !.took = Fld(r.s, block, OFF_size),
                  \* the payload handed out held a word that was not 0
                  !.dirty = \E a \in DOMAIN mem :
                              /\ a >= r.ret
                              /\ a < block + Fld(r.s, block, OFF_size) - WORD
                              /\ mem[a] # 0,
                  !.ret = r.ret, !.denied = r.s.denied,
                  !.grew = r.s.brk > brk,
                  !.reuse = /\ last.op = "free"
                            /\ last.ret = EXIT_SUCCESS
                            /\ last.payload >= n,
                  \* the memory, the map list and the regions mapped
                  \* are as before the call
                  !.same = ([r.s EXCEPT !.denied = FALSE] = St),
                  \* the payload returned was handed out before and has
                  \* not been released
                  !.twice = r.ret \in inuse,
                  !.kept = /\ r.s.mem = mem
                           /\ r.s.mmap_list = mmap_list
                           /\ r.s.mapped = mapped]
          \* the call did not return
          ELSE [NoCall EXCEPT !.op = "fault", !.size = n,
                              !.denied = r.s.denied]
     /\ freed' = IF ok THEN {} ELSE freed
     /\ rooted' = IF ok /\ i # 0 /\ r.ret > 0 THEN rooted \cup {i}
                  ELSE rooted \ {i}
     /\ inuse' = IF ok /\ r.ret > 0 THEN inuse \cup {r.ret} ELSE inuse
     /\ garbage' = Disturb(MAIN)
     /\ swept' = {}

\* MEM_allocMalloc / MEM_allocMallocFirstFit / BestFit / NextFit: the whole
\* call under gc_lock
Alloc(n, strategy, budget) ==
  /\ fate = "run" /\ mpc = "idle" /\ gc_lock = {}
  /\ calls < budget
  /\ calls' = calls + 1
  /\ Allocated("alloc", n, MEM_allocatorMalloc(St, n, strategy), Target)
  /\ UNCHANGED gcVars

\* the caller's side of a free of ptr that returned r
Freed(ptr, r) ==
  LET ok == r.s.fate = "run"
      heapblk == ptr - SIZEOF_HDR >= USER_START
                 /\ ptr - SIZEOF_HDR < heap_end
  IN /\ Commit(r.s)
     /\ last' = IF ok
          THEN [NoCall EXCEPT
                  !.op = "free", !.ptr = ptr, !.ret = r.ret,
                  !.payload = IF heapblk
                                THEN Fld(St, ptr - SIZEOF_HDR, OFF_size)
                                     - SIZEOF_HDR - WORD
                                ELSE 0,
                  !.denied = r.s.denied,
                  \* the node of the map list that records the block
                  !.node = MapWithAddr(St, mmap_list, ptr - SIZEOF_HDR, {}),
                  \* the lease, if ptr is the block in use that the last
                  \* growth created and that still ends the heap
                  !.lease = IF /\ ptr - SIZEOF_HDR = last_brk_start
                               /\ last_brk_end = heap_end
                               /\ FreeOf(St, ptr - SIZEOF_HDR) = 0
                              THEN last_brk_end - last_brk_start ELSE 0,
                  !.end = heap_end,
                  !.again = ptr \in freed,
                  !.same = ([r.s EXCEPT !.refuse = FALSE] = St),
                  !.fresh = /\ last.op = "alloc" /\ last.ret = ptr
                            /\ ~last.denied
                            /\ last.small]
          ELSE last
     /\ freed' = IF ok /\ r.ret = EXIT_SUCCESS THEN freed \cup {ptr}
                 ELSE freed
     /\ rooted' = IF ok /\ r.ret = EXIT_SUCCESS
                    THEN {j \in rooted : stack[j] # ptr} ELSE rooted
     /\ inuse' = IF ok /\ r.ret = EXIT_SUCCESS THEN inuse \ {ptr}
                 ELSE inuse
     /\ garbage' = Disturb(MAIN)
     /\ swept' = {}

\* MEM_allocFree on the pointer in slot i; the slot keeps the stale pointer.
\* The operating system may refuse to lower the break during the call.
Free(i, budget) ==
  /\ fate = "run" /\ mpc = "idle" /\ gc_lock = {}
  /\ calls < budget
  /\ calls' = calls + 1
  /\ stack[i] # NULL
  /\ \E refuse \in BOOLEAN :
       Freed(stack[i],
             MEM_allocatorFree([St EXCEPT !.refuse = refuse], stack[i]))
  /\ UNCHANGED <<gcVars, stack>>

\* the mutator overwrites a stack word: the pointer in slot i is gone
Drop(i) ==
  /\ fate = "run" /\ mpc = "idle"
  /\ stack[i] # NULL
  /\ stack' = [stack EXCEPT ![i] = NULL]
  /\ rooted' = rooted \ {i}
  /\ last' = [NoCall EXCEPT !.op = "drop"]
  /\ garbage' = Disturb(MAIN)
  /\ swept' = {}
  /\ UNCHANGED <<allocVars, fate, gcVars, freed, inuse, calls>>

\* the program writes its data over the payload of the block in slot i
Fill(i) ==
  /\ fate = "run" /\ mpc = "idle"
  /\ stack[i] \in inuse
  /\ mem' = [a \in DOMAIN mem |->
               IF /\ a >= stack[i]
                  /\ a < stack[i] - SIZEOF_HDR
                          + Fld(St, stack[i] - SIZEOF_HDR, OFF_size) - WORD
                 THEN FILL_VALUE ELSE mem[a]]
  /\ mem' # mem
  /\ last' = [NoCall EXCEPT !.op = "fill"]
  /\ UNCHANGED <<heap_end, brk, last_allocated, last_brk_start, last_brk_end,
                 mmap_list, mapped, fate, gcVars, stack, freed, rooted, inuse,
                 garbage, swept, calls>>

\* the caller's side of p = realloc(p, n) that returned r, p in slot i
Reallocated(ptr, n, r, i) ==
  LET ok == r.s.fate = "run"
      moved == ok /\ r.ret > 0 /\ r.ret # ptr
      words == IF ptr \in inuse
                 THEN (Fld(St, ptr - SIZEOF_HDR, OFF_size) - SIZEOF_HDR - WORD)
                        \div WORD
                 ELSE 0
  IN /\ Commit(r.s)
     /\ stack' = IF ok THEN [stack EXCEPT ![i] = r.ret] ELSE stack
     /\ last' = IF ok
          THEN [NoCall EXCEPT
                  !.op = "realloc", !.ptr = ptr, !.size = n, !.ret = r.ret,
                  !.denied = r.s.denied,
                  !.live = ptr \in inuse,
                  !.payload = words * WORD,
                  \* the words of the old payload, each with its offset
                  !.data = {<<a - ptr, mem[a]>> :
                              a \in {x \in DOMAIN mem :
                                       x >= ptr /\ x < ptr + words * WORD}},
                  !.same = (r.s = St)]
          ELSE last
     /\ freed' = IF moved /\ Reclaimed(r.s, ptr) THEN {ptr}
                 ELSE IF ok THEN {} ELSE freed
     /\ rooted' = IF moved THEN rooted \cup {i}
                  ELSE IF ok /\ r.ret = ptr THEN rooted ELSE rooted \ {i}
     /\ inuse' = IF moved THEN (inuse \ {ptr}) \cup {r.ret} ELSE inuse
     /\ garbage' = Disturb(MAIN)
     /\ swept' = {}

\* MEM_allocRealloc on the pointer in slot i: the whole call under gc_lock
Realloc(i, n, strategy, budget) ==
  /\ fate = "run" /\ mpc = "idle" /\ gc_lock = {}
  /\ calls < budget
  /\ calls' = calls + 1
  /\ Reallocated(stack[i], n,
                 MEM_allocatorRealloc(St, stack[i], n, strategy), i)
  /\ UNCHANGED gcVars

\* MEM_allocCalloc: the whole call under gc_lock
Calloc(n, strategy, budget) ==
  /\ fate = "run" /\ mpc = "idle" /\ gc_lock = {}
  /\ calls < budget
  /\ calls' = calls + 1
  /\ Allocated("calloc", n, MEM_allocatorCalloc(St, n, strategy), Target)
  /\ UNCHANGED gcVars

MutatorCall(budget) ==
  \/ \E n \in ReqSizes, strategy \in Strategies : Alloc(n, strategy, budget)
  \/ \E i \in Slots : Free(i, budget)

\* a program that never enables the collector
Next == MutatorCall(MaxCalls)

Spec == Init /\ [][Next]_vars

\* MEM_allocFree on a pointer the program holds
FreeHeld(i, budget) == stack[i] \in inuse /\ Free(i, budget)

\* the strategies such a program asks for
OwnStrategies == {FIRST_FIT, NEXT_FIT}

\* a program that frees no pointer twice and no pointer it was not given
NextOwn ==
  \/ \E n \in ReqSizes, strategy \in OwnStrategies : Alloc(n, strategy, MaxOwnCalls)
  \/ \E i \in Slots : FreeHeld(i, MaxOwnCalls)

SpecOwn == Init /\ [][NextOwn]_vars

\* a program that also fills, resizes and asks for cleared blocks
NextRe ==
  \/ MutatorCall(MaxReCalls)
  \/ \E i \in Slots : Fill(i)
  \/ \E i \in Slots, n \in ReSizes, strategy \in Strategies :
       Realloc(i, n, strategy, MaxReCalls)
  \/ \E n \in ReSizes, strategy \in Strategies :
       Calloc(n, strategy, MaxReCalls)

SpecRe == Init /\ [][NextRe]_vars

(***************************************************************************)
(* The collector side: MEM_enableGc (MEM_runGc), MEM_disableGc             *)
(* (MEM_stopGc) step by step, and MEM_gcThreadFunc.                        *)
(***************************************************************************)
\* pthread_cond_signal(&gc_cond): one thread waiting on it, if any, wakes up
Woken ==
  IF \E w \in Workers : wpc[w] = "wait"
    THEN {[wpc EXCEPT ![w] = "ready"] : w \in {v \in Workers : wpc[v] = "wait"}}
    ELSE {wpc}

\* MEM_runGc, lines 3564-3582: the flags are set, then pthread_create either
\* starts a worker or fails; on failure the function leaves by the goto of
\* line 3581, past the pthread_mutex_unlock of line 3590
EnableCreate(created) ==
  /\ gc_thread_started' = TRUE
  /\ gc_running' = TRUE
  /\ gc_exit' = FALSE
  /\ IF created
       THEN /\ \E w \in Workers :
                 /\ wpc[w] = "none"
                 /\ \A v \in Workers : wpc[v] = "none" => w <= v
                 /\ wpc' = [wpc EXCEPT ![w] = "ready"]
            /\ gc_lock' = gc_lock
            /\ last' = [NoCall EXCEPT !.op = "enable"]
       ELSE /\ wpc' = wpc
            /\ gc_lock' = gc_lock \cup {MAIN}
            /\ last' = [NoCall EXCEPT !.op = "enable", !.denied = TRUE,
                                      !.ret = 11]

\* MEM_runGc, lines 3560-3590, the whole call
EnableGc ==
  /\ fate = "run" /\ mpc = "idle" /\ gc_lock = {}
  /\ calls < MaxGcCalls
  /\ calls' = calls + 1
  /\ IF ~gc_thread_started
       THEN \E created \in BOOLEAN : EnableCreate(created)
       ELSE /\ gc_running' = TRUE
            /\ wpc' \in Woken
            /\ last' = [NoCall EXCEPT !.op = "enable"]
            /\ UNCHANGED <<gc_thread_started, gc_exit, gc_lock>>
  /\ UNCHANGED <<allocVars, fate, mpc, stack, freed, rooted, inuse,
                 garbage, swept>>

\* MEM_stopGc, line 3631: gc_running = false, written without gc_lock
StopGc ==
  /\ fate = "run" /\ mpc = "idle"
  /\ calls < MaxGcCalls
  /\ calls' = calls + 1
  /\ gc_running' = FALSE
  /\ mpc' = "exit"
  /\ last' = [NoCall EXCEPT !.op = "disable"]
  /\ UNCHANGED <<allocVars, fate, gc_thread_started, gc_exit, gc_lock, wpc,
                 stack, freed, rooted, inuse, garbage, swept>>

\* lines 3632-3634: gc_exit = true, written without gc_lock, then the test
\* of gc_thread_started
StopExit ==
  /\ fate = "run" /\ mpc = "exit"
  /\ gc_exit' = TRUE
  /\ mpc' = IF gc_thread_started THEN "signal" ELSE "idle"
  /\ UNCHANGED <<allocVars, fate, gc_thread_started, gc_running, gc_lock,
                 wpc, histVars>>

\* line 3636: pthread_cond_signal, without gc_lock
StopSignal ==
  /\ fate = "run" /\ mpc = "signal"
  /\ wpc' \in Woken
  /\ mpc' = "join"
  /\ UNCHANGED <<allocVars, fate, gc_thread_started, gc_running, gc_exit,
                 gc_lock, histVars>>

\* line 3637: pthread_join on gc_thread->gc_thread, a handle no code ever
\* assigns (MEM_runGc hands pthread_create a copy, line 3569): the call
\* returns whatever the worker is doing, or faults
JoinGc(faults) ==
  /\ fate = "run" /\ mpc = "join"
  /\ IF faults THEN fate' = "segv" /\ mpc' = mpc
     ELSE fate' = fate /\ mpc' = "mark"
  /\ UNCHANGED <<allocVars, gc_thread_started, gc_running, gc_exit, gc_lock,
                 wpc, histVars>>

\* a mark by thread t: it fixes what t's cycle has to reclaim and upsets
\* the marks of every other cycle in progress
Mark(t) ==
  /\ Commit(MEM_gcMark(St, stack))
  /\ garbage' = [u \in Threads |->
                   IF u = t THEN {p \in inuse : \A i \in Slots : stack[i] # p}
                   ELSE {}]
  /\ swept' = {}
  /\ UNCHANGED <<stack, last, freed, rooted, inuse, calls>>

\* the sweep of thread t returned s
Swept(t, s) ==
  /\ Commit(s)
  /\ swept' = IF s.fate = "run" THEN garbage[t] ELSE {}
  /\ garbage' = [u \in Threads |-> {}]
  /\ inuse' = IF s.fate = "run" THEN {p \in inuse : ~Reclaimed(s, p)}
              ELSE inuse
  /\ UNCHANGED <<stack, last, freed, rooted, calls>>

\* lines 3639-3641: the final mark on the caller's thread
FinalMark ==
  /\ fate = "run" /\ mpc = "mark"
  /\ Mark(MAIN)
  /\ mpc' = "sweep"
  /\ UNCHANGED <<gc_thread_started, gc_running, gc_exit, gc_lock, wpc>>

\* lines 3643-3647: the final sweep, then gc_thread_started = false
FinalSweep(fault) ==
  /\ fate = "run" /\ mpc = "sweep"
  /\ Swept(MAIN, MEM_gcSweep(St, fault))
  /\ mpc' = "idle"
  /\ gc_thread_started' = FALSE
  /\ UNCHANGED <<gc_running, gc_exit, gc_lock, wpc>>

\* MEM_gcThreadFunc, lines 3493-3503 and 3515-3519: the worker takes
\* gc_lock and reads the flags; it then unlocks and exits, keeps the lock on
\* its way to pthread_cond_wait, or unlocks to run a cycle
WorkerCheck(w) ==
  /\ fate = "run" /\ wpc[w] = "ready" /\ gc_lock = {}
  /\ wpc' = [wpc EXCEPT ![w] = IF gc_exit THEN "done"
                               ELSE IF ~gc_running THEN "towait"
                               ELSE "mark"]
  /\ gc_lock' = IF ~gc_exit /\ ~gc_running THEN {w} ELSE {}
  /\ UNCHANGED <<allocVars, fate, gc_thread_started, gc_running, gc_exit,
                 mpc, histVars>>

\* line 3498: pthread_cond_wait releases gc_lock and blocks the worker
\* until gc_cond is signalled
WorkerWait(w) ==
  /\ fate = "run" /\ wpc[w] = "towait"
  /\ wpc' = [wpc EXCEPT ![w] = "wait"]
  /\ gc_lock' = gc_lock \ {w}
  /\ UNCHANGED <<allocVars, fate, gc_thread_started, gc_running, gc_exit,
                 mpc, histVars>>

\* line 3505, gc_lock not held
WorkerMark(w) ==
  /\ fate = "run" /\ wpc[w] = "mark"
  /\ Mark(w)
  /\ wpc' = [wpc EXCEPT ![w] = "sweep"]
  /\ UNCHANGED <<gc_thread_started, gc_running, gc_exit, gc_lock, mpc>>

\* lines 3505-3507 and 3519: MEM_stackBounds fails inside MEM_gcMark (line
\* 3221, pthread_getattr_np) before a mark is touched; the worker leaves by
\* goto mutex_unlock and calls pthread_mutex_unlock on gc_lock, which it
\* released at line 3503.  gc_lock is a default mutex (line 1763): the
\* unlock by a thread that does not hold it either releases it for whoever
\* holds it or has no effect
WorkerMarkFails(w) ==
  /\ fate = "run" /\ wpc[w] = "mark"
  /\ wpc' = [wpc EXCEPT ![w] = "done"]
  /\ gc_lock' \in {gc_lock, {}}
  /\ UNCHANGED <<allocVars, fate, gc_thread_started, gc_running, gc_exit,
                 mpc, histVars>>

\* lines 3509-3515, gc_lock not held: the sweep, then the sleep
WorkerSweep(w, fault) ==
  /\ fate = "run" /\ wpc[w] = "sweep"
  /\ Swept(w, MEM_gcSweep(St, fault))
  /\ wpc' = [wpc EXCEPT ![w] = "ready"]
  /\ UNCHANGED <<gc_thread_started, gc_running, gc_exit, gc_lock, mpc>>

Collector ==
  \/ EnableGc
  \/ StopGc
  \/ StopExit
  \/ StopSignal
  \/ \E faults \in BOOLEAN : JoinGc(faults)
  \/ FinalMark
  \/ \E fault \in BOOLEAN : FinalSweep(fault)
  \/ \E w \in Workers : WorkerCheck(w)
  \/ \E w \in Workers : WorkerWait(w)
  \/ \E w \in Workers : WorkerMark(w)
  \/ \E w \in Workers : WorkerMarkFails(w)
  \/ \E w \in Workers, fault \in BOOLEAN : WorkerSweep(w, fault)

\* The calls a program may have made before it turns to the collector:
\*   p1 = alloc(8, NEXT_FIT); p2 = alloc(8, FIRST_FIT); free(p1);
\*   q = alloc(16, NEXT_FIT); free(p2)
\* with q kept in the first word of the stack and p2 in the second.  No
\* other thread exists yet, so the five calls run one after the other.
PrologueDone(p2, r4, r5) ==
  /\ Commit(r5.s)
  /\ stack' = [i \in Slots |-> IF i = 1 THEN r4.ret
                               ELSE IF i = 2 THEN p2 ELSE NULL]
  /\ last' = [NoCall EXCEPT !.op = "free", !.ptr = p2, !.ret = r5.ret,
                            !.payload = Fld(r4.s, p2 - SIZEOF_HDR, OFF_size)
                                        - SIZEOF_HDR - WORD]
  /\ freed' = IF r5.ret = EXIT_SUCCESS THEN {p2} ELSE {}
  /\ inuse' = {p \in {p2, r4.ret} : p > 0 /\ ~Reclaimed(r5.s, p)}
  /\ rooted' = IF r4.ret > 0 THEN {1} ELSE {}

PrologueFreeP2(p2, r4) ==
  PrologueDone(p2, r4, MEM_allocatorFree(r4.s, p2))

PrologueQ(p2, r3) ==
  PrologueFreeP2(p2, MEM_allocatorMalloc(r3.s, 16, NEXT_FIT))

PrologueFreeP1(p1, r2) ==
  PrologueQ(r2.ret, MEM_allocatorFree(r2.s, p1))

PrologueP2(r1) ==
  PrologueFreeP1(r1.ret, MEM_allocatorMalloc(r1.s, 8, FIRST_FIT))

Prologue ==
  /\ fate = "run" /\ last.op = "none" /\ calls = 0
  /\ \A i \in Slots : stack[i] = NULL
  /\ \A w \in Workers : wpc[w] = "none"
  /\ PrologueP2(MEM_allocatorMalloc(St, 8, NEXT_FIT))
  /\ UNCHANGED <<gcVars, garbage, swept, calls>>

\* a program that uses the collector
NextGC ==
  \/ Prologue
  \/ MutatorCall(MaxGcCalls)
  \/ \E i \in Slots : Drop(i)
  \/ Collector

SpecGC == Init /\ [][NextGC]_vars

(***************************************************************************)
(* What the claims speak of: the heap blocks in address order and the      *)
(* bins that hold a block.                                                 *)
(***************************************************************************)
RECURSIVE HeapWalk(_, _)
\* the headers met from the first block on, each one size bytes after the
\* one before, up to heap_end
HeapWalk(s, p) ==
  IF p >= s.heap_end THEN {}
  ELSE IF Fld(s, p, OFF_size) < SIZEOF_HDR THEN {p}
  ELSE {p} \cup HeapWalk(s, p + Fld(s, p, OFF_size))

HeapBlocks == HeapWalk(St, USER_START)

RECURSIVE BinMembers(_, _, _)
BinMembers(s, cur, seen) ==
  IF cur = NULL \/ cur \in seen THEN seen
  ELSE BinMembers(s, Fld(s, cur, OFF_fl_next), seen \cup {cur})

BinsHolding(b) ==
  {i \in 0 .. DEFAULT_NUM_BINS - 1 :
     b \in BinMembers(St, FreeListHead(St, i), {})}

\* C1: between operations every free heap block is in exactly one bin and
\* every in-use heap block is in no bin
C1_BinsPartition ==
  fate = "run" =>
    \A b \in HeapBlocks :
      IF FreeOf(St, b) # 0 THEN Cardinality(BinsHolding(b)) = 1
      ELSE BinsHolding(b) = {}

\* C4: a second free of a pointer already freed with success, with no
\* allocation in between, does not return success and changes nothing of
\* the allocator
C4_DoubleFreeRejected ==
  (last.op = "free" /\ last.again) =>
    (last.ret # EXIT_SUCCESS /\ last.same)

C4_Witness ==
  /\ last.op = "free" /\ last.again /\ last.ret = -EINVAL
  /\ \E i \in Slots : stack[i] = last.ptr /\ FreeOf(St, last.ptr - SIZEOF_HDR) = 1

\* C5: free of the pointer a heap-sized alloc just returned gives
\* EXIT_SUCCESS, unless the operating system refused the memory
C5_FreeOfAllocOk ==
  (last.op = "free" /\ last.fresh) => last.ret = EXIT_SUCCESS

\* C6: right after a free that returned success no two heap blocks that
\* touch in memory are both free
C6_NoAdjacentFree ==
  (fate = "run" /\ last.op = "free" /\ last.ret = EXIT_SUCCESS) =>
    \A b \in HeapBlocks :
      LET nb == b + Fld(St, b, OFF_size)
      IN ~(FreeOf(St, b) # 0 /\ nb \in HeapBlocks /\ FreeOf(St, nb) # 0)

\* C7: an alloc that follows a successful free of a heap block and asks for
\* no more than that block's payload returns a valid pointer, unless the
\* operating system refused memory
C7_ReuseSucceeds ==
  (last.op = "alloc" /\ last.reuse /\ ~last.denied) => last.ret > 0

\* C8: an alloc during which the heap was grown returns a valid pointer
C8_RetryAfterGrowth ==
  (last.op = "alloc" /\ last.grew) => last.ret > 0

\* C2: a thread that is between the mark and the sweep of a cycle holds
\* gc_lock
C2_CycleUnderLock ==
  /\ \A w \in Workers : wpc[w] = "sweep" => w \in gc_lock
  /\ mpc = "sweep" => MAIN \in gc_lock

\* C3: a block held in a stack word since its allocation, and not freed by
\* the mutator, is never reclaimed
C3_RootedSurvive ==
  fate = "run" => \A i \in rooted : ~Reclaimed(St, stack[i])

\* C9: when a cycle completes that no other thread disturbed, every block
\* that was in use at its mark and in no word of the stack is reclaimed
C9_GarbageReclaimed ==
  fate = "run" => \A p \in swept : Reclaimed(St, p)

\* C10: the final mark and sweep of MEM_stopGc run only once every worker
\* created has terminated
C10_JoinBeforeFinalCycle ==
  mpc \in {"mark", "sweep"} => \A w \in Workers : wpc[w] \in {"none", "done"}

\* C11: at most one collector thread is alive (created and not yet returned
\* from MEM_gcThreadFunc) at any time
C11_OneWorker ==
  Cardinality({w \in Workers : wpc[w] \notin {"none", "done"}}) <= 1

\* Fair scheduling: a thread that can take its next step takes it.  This
\* holds for every step of a worker inside MEM_gcThreadFunc and for every
\* step of a MEM_stopGc call in progress; whether the program calls the
\* library again is up to the program.  A mark or a sweep is one step that
\* is always enabled where its thread stands, so for these weak fairness
\* says that the thread does not stand there for ever.
Fairness ==
  /\ \A w \in Workers :
       /\ WF_vars(WorkerCheck(w))
       /\ WF_vars(WorkerWait(w))
       /\ []<>(fate # "run" \/ wpc[w] \notin {"mark", "sweep"})
  /\ WF_vars(StopExit)
  /\ WF_vars(StopSignal)
  /\ WF_vars(\E faults \in BOOLEAN : JoinGc(faults))
  /\ []<>(fate # "run" \/ mpc \notin {"mark", "sweep"})

SpecLive == Init /\ [][NextGC]_vars /\ Fairness

\* C12: once MEM_stopGc has set gc_exit and signalled gc_cond, every worker
\* alive at that point eventually returns from MEM_gcThreadFunc (unless the
\* process has died or a later MEM_runGc has withdrawn the exit request)
C12_WorkerTerminates ==
  \A w \in Workers :
    (gc_exit /\ mpc = "join" /\ wpc[w] \notin {"none", "done"})
      ~> (wpc[w] = "done" \/ ~gc_exit \/ fate # "run")

\* C13: an allocation of exactly MMAP_THRESHOLD bytes, made while the
\* operating system has a region to map, returns the payload of a mapped
\* region
C13_ThresholdMapped ==
  (last.op = "alloc" /\ last.size = MMAP_THRESHOLD /\ last.room)
    => last.ret - SIZEOF_HDR \in mapped

\* C14: an allocation of exactly payload_of(B) - MIN_BLOCK_SIZE bytes that
\* is placed in the free block B leaves the size of B as it was (no
\* remainder is carved)
C14_SplitFloor ==
  (/\ last.op = "alloc" /\ last.found > 0
   /\ last.size = last.found - SIZEOF_HDR - WORD - MIN_BLOCK_SIZE)
    => last.took = last.found

\* C15: after a successful free of the block in use that the most recent
\* growth created at the end of the heap, the operating system refusing
\* nothing, heap_end is lower by exactly the lease and the lease record is
\* cleared
C15_ShrinkByLease ==
  (last.op = "free" /\ last.ret = EXIT_SUCCESS /\ last.lease > 0
   /\ ~last.denied)
    => /\ heap_end = last.end - last.lease
       /\ last_brk_start = NULL
       /\ last_brk_end = NULL

C15_Witness ==
  /\ last.op = "free" /\ last.ret = EXIT_SUCCESS /\ last.lease > 0
  /\ ~last.denied
  /\ heap_end = last.end - last.lease

\* C16: when the operating system refuses to lower the break in that free,
\* the call returns EXIT_SUCCESS, the block is in the bin of its size class
\* and in no other, and heap_end and the lease record are as before
C16_ShrinkRefused ==
  (last.op = "free" /\ last.lease > 0 /\ last.denied)
    => /\ last.ret = EXIT_SUCCESS
       /\ BinsHolding(last.ptr - SIZEOF_HDR)
            = {MEM_getSizeClass(Fld(St, last.ptr - SIZEOF_HDR, OFF_size))}
       /\ FreeOf(St, last.ptr - SIZEOF_HDR) # 0
       /\ heap_end = last.end
       /\ last_brk_start = last.ptr - SIZEOF_HDR
       /\ last_brk_end = last.end

C16_Witness ==
  /\ last.op = "free" /\ last.lease > 0 /\ last.denied
  /\ last.ret = EXIT_SUCCESS
  /\ heap_end = last.end

\* C17: realloc(p, n) on a live block whose payload is at least n bytes
\* returns p and changes nothing in the allocator
C17_ReallocInPlace ==
  (last.op = "realloc" /\ last.live /\ last.size <= last.payload)
    => (last.ret = last.ptr /\ last.same)

C17_Witness ==
  /\ last.op = "realloc" /\ last.live /\ last.size < last.payload
  /\ last.ret = last.ptr

\* C18: when realloc(p, n) on a live block with a payload below n bytes
\* succeeds, the block returned is in use, its first words are the words the
\* old payload held, and the old block is free
C18_ReallocMoves ==
  (last.op = "realloc" /\ last.live /\ last.size > last.payload
   /\ last.ret > 0)
    => /\ FreeOf(St, last.ret - SIZEOF_HDR) = 0
       /\ \A w \in last.data :
            last.ret + w[1] \in Addrs => Rd(St, last.ret + w[1]) = w[2]
       /\ Reclaimed(St, last.ptr)

C18_Witness ==
  /\ last.op = "realloc" /\ last.live /\ last.size > last.payload
  /\ last.ret > 0 /\ last.ret # last.ptr
  /\ \E w \in last.data : w[2] = FILL_VALUE
  /\ Rd(St, last.ret) = FILL_VALUE

\* C19: the whole payload of the block a successful calloc returns is zero
C19_CallocZero ==
  (last.op = "calloc" /\ last.ret > 0)
    => \A a \in Addrs :
         (/\ a >= last.ret
          /\ a < last.ret - SIZEOF_HDR
                  + Fld(St, last.ret - SIZEOF_HDR, OFF_size) - WORD)
           => Rd(St, a) = 0

C19_Witness ==
  /\ last.op = "calloc" /\ last.ret > 0
  /\ last.found > 0 /\ last.dirty
  /\ Rd(St, last.ret) = 0

RECURSIVE MapNodes(_, _, _)
\* the nodes of allocator->mmap_list
MapNodes(s, map, seen) ==
  IF map = NULL \/ map \in seen THEN seen
  ELSE MapNodes(s, Rd(s, map + OFF_map_next), seen \cup {map})

\* the headers of the regions the map list records
MapBlocks == {Rd(St, m + OFF_map_addr) : m \in MapNodes(St, mmap_list, {})}

\* C21: between operations every block of the heap and every mapped block
\* carries the magic number, the head canary and, in its last word, the tail
\* canary, the program writing only inside payloads
C21_Sentinels ==
  fate = "run" =>
    \A b \in HeapBlocks \cup MapBlocks :
      /\ Fld(St, b, OFF_magic) = MAGIC_NUMBER
      /\ Fld(St, b, OFF_canary) = CANARY_VALUE
      /\ Rd(St, b + Fld(St, b, OFF_size) - WORD) = CANARY_VALUE

RECURSIVE Tiles(_, _)
\* advancing from p by the size of each header met lands on heap_end, every
\* header met on the way being one of a block
Tiles(s, p) ==
  IF p = s.heap_end THEN TRUE
  ELSE IF p > s.heap_end THEN FALSE
  ELSE IF Fld(s, p, OFF_magic) # MAGIC_NUMBER THEN FALSE
  ELSE IF Fld(s, p, OFF_size) < SIZEOF_HDR + WORD THEN FALSE
  ELSE Tiles(s, p + Fld(s, p, OFF_size))

\* C28: the blocks of the heap tile the user heap: the walk by sizes from the
\* end of the metadata meets only block headers and ends exactly on heap_end
C28_HeapTiled == fate = "run" => Tiles(St, USER_START)

\* the mapped blocks the program holds
LiveMaps == {p - SIZEOF_HDR : p \in {q \in inuse : q - SIZEOF_HDR \in MapBases}}

\* C22: the map list has exactly one node for each mapped block the program
\* holds and no other node, the regions mapped are those of these blocks, and
\* after a successful free of a mapped block the heap block of its node is
\* free or was given back to the operating system
C22_MapList ==
  fate = "run" =>
    /\ MapBlocks = LiveMaps
    /\ Cardinality(MapNodes(St, mmap_list, {})) = Cardinality(LiveMaps)
    /\ mapped = LiveMaps
    /\ (last.op = "free" /\ last.node # NULL /\ last.ret = EXIT_SUCCESS) =>
         \/ last.node - SIZEOF_HDR >= heap_end
         \/ FreeOf(St, last.node - SIZEOF_HDR) # 0

\* C23: an alloc on the map path during which the operating system refused
\* the mapping, or the break needed for the node of the map list, returns an
\* error pointer and leaves the memory, the map list and the set of mapped
\* regions as they were
C23_MapRefused ==
  (last.op \in {"alloc", "fault"} /\ last.size > MMAP_THRESHOLD
     /\ last.denied) =>
    (fate = "run" /\ last.ret < 0 /\ last.kept)

\* C24: an alloc on the heap path during which the operating system refused
\* to raise the break returns PTR_ERR(-ENOMEM) and leaves the whole allocator
\* (heap_end, the lease record, the bins, last_allocated) as it was
C24_GrowthFailed ==
  (last.op = "alloc" /\ last.size <= MMAP_THRESHOLD /\ last.denied) =>
    (last.ret = -ENOMEM /\ last.same)

C24_Witness ==
  /\ last.op = "alloc" /\ last.size \in SmallSizes /\ last.denied
  /\ last.ret = -ENOMEM /\ last.same
  /\ last_allocated # NULL
  /\ \E i \in 0 .. DEFAULT_NUM_BINS - 1 : FreeListHead(St, i) # NULL

\* C25: between operations last_allocated is NULL or the header of a block
\* of the heap that passes MEM_validateBlock, and it is NULL after a free
\* that lowered heap_end
C25_CursorValid ==
  fate = "run" =>
    /\ \/ last_allocated = NULL
       \/ /\ last_allocated \in HeapBlocks
          /\ MEM_validateBlock(St, last_allocated) = EXIT_SUCCESS
    /\ (last.op = "free" /\ heap_end < last.end) => last_allocated = NULL

\* the headers of the blocks the program holds, and of the blocks in the bins
InUseBlocks == {p - SIZEOF_HDR : p \in inuse}
BinBlocks ==
  UNION {BinMembers(St, FreeListHead(St, i), {}) :
           i \in 0 .. DEFAULT_NUM_BINS - 1}

\* the byte ranges of the blocks at a and b have no byte in common
Apart(a, b) ==
  \/ a + Fld(St, a, OFF_size) <= b
  \/ b + Fld(St, b, OFF_size) <= a

\* C26: the blocks in use are pairwise disjoint, none of them overlaps a
\* block linked in a bin, and no allocation returns a payload that is still
\* in use
C26_NoOverlap ==
  fate = "run" =>
    /\ \A a \in InUseBlocks : \A b \in InUseBlocks \ {a} : Apart(a, b)
    /\ \A a \in InUseBlocks : \A b \in BinBlocks : Apart(a, b)
    /\ last.op \in {"alloc", "calloc"} => ~last.twice

\* C27: in every state between operations the search of MEM_findNextFit
\* comes to an end, whatever size of the heap path is asked for
C27_NextFitEnds ==
  fate = "run" =>
    \A n \in SmallSizes : MEM_findNextFit(St, TotalSize(n), NULL).ret # HANG

\* the free blocks of the heap that pass validation and hold size bytes
FreeFits(size) == {b \in HeapBlocks : Fits(St, b, size)}

\* the result r of a best-fit search for size bytes is what C29 asks for
BestOf(r, size) ==
  IF r.ret = EXIT_SUCCESS
    THEN /\ r.block \in FreeFits(size)
         /\ \A b \in FreeFits(size) :
              Fld(St, r.block, OFF_size) <= Fld(St, b, OFF_size)
    ELSE r.ret = -ENOMEM /\ FreeFits(size) = {}

\* C29: in every state between operations MEM_findBestFit returns a free
\* block of the heap that passes validation, holds the size asked for and
\* is no larger than any other such block, and it returns -ENOMEM only if
\* the heap has no such block
C29_BestFit ==
  fate = "run" =>
    \A n \in SmallSizes :
      BestOf(MEM_findBestFit(St, TotalSize(n), NULL), TotalSize(n))

\* min(ceil(n / 128), num_bins - 1)
ClassOf(n) ==
  IF (n + 127) \div 128 < DEFAULT_NUM_BINS - 1 THEN (n + 127) \div 128
  ELSE DEFAULT_NUM_BINS - 1

\* C30: between operations bin i holds only blocks B with
\* min(ceil(B.size / 128), num_bins - 1) = i
C30_BinClass ==
  fate = "run" =>
    \A i \in 0 .. DEFAULT_NUM_BINS - 1 :
      \A b \in BinMembers(St, FreeListHead(St, i), {}) :
        ClassOf(Fld(St, b, OFF_size)) = i

\* C31: in every state the neighbour links agree with the addresses: a
\* non-null next of a heap block B is the block that starts at B + B.size
\* and has B as its prev, and a non-null prev of B is a block that ends at B
C31_NeighbourLinks ==
  fate = "run" =>
    \A b \in HeapBlocks :
      /\ Fld(St, b, OFF_next) # NULL =>
           /\ Fld(St, b, OFF_next) = b + Fld(St, b, OFF_size)
           /\ Fld(St, b, OFF_next) \in HeapBlocks
           /\ Fld(St, Fld(St, b, OFF_next), OFF_prev) = b
      /\ Fld(St, b, OFF_prev) # NULL =>
           /\ Fld(St, b, OFF_prev) \in HeapBlocks
           /\ Fld(St, b, OFF_prev)
                + Fld(St, Fld(St, b, OFF_prev), OFF_size) = b

\* the pointers handed to the validation: every address of the heap and
\* around it by steps of half a word, and the mapped regions
Candidates ==
  {a \in (HEAP_START - WORD) .. (heap_end + WORD) : a % (WORD \div 2) = 0}
    \cup MapBases

\* the end of the region that holds the candidate b, NULL when none does
RegionEnd(b) ==
  IF b >= HEAP_START /\ b < heap_end THEN heap_end
  ELSE IF MapContaining(St, mmap_list, b, {}) = NULL THEN NULL
  ELSE Rd(St, MapContaining(St, mmap_list, b, {}) + OFF_map_addr)
         + Rd(St, MapContaining(St, mmap_list, b, {}) + OFF_map_size)

\* the first of the eight checks that the candidate b fails, 0 when it
\* passes them all
FailedStep(b) ==
  IF RegionEnd(b) = NULL THEN 1
  ELSE IF b % ARCH_ALIGNMENT # 0 THEN 2
  ELSE IF (b < heap_end /\ b < USER_START) \/ b > RegionEnd(b) - SIZEOF_HDR
    THEN 3
  ELSE IF Fld(St, b, OFF_size) < SIZEOF_HDR + WORD
          \/ Fld(St, b, OFF_size) % ARCH_ALIGNMENT # 0 THEN 4
  ELSE IF b + Fld(St, b, OFF_size) > RegionEnd(b) THEN 5
  ELSE IF Fld(St, b, OFF_magic) # MAGIC_NUMBER THEN 6
  ELSE IF b < heap_end /\ Fld(St, b, OFF_canary) # CANARY_VALUE THEN 7
  ELSE IF Rd(St, b + Fld(St, b, OFF_size) - WORD) # CANARY_VALUE THEN 8
  ELSE 0

\* C32: the validation of a block fails exactly when one of the checks
\* region, alignment, header fits, size, size within region, magic, head
\* canary, tail canary fails, and two candidates whose first failing checks
\* differ get different error kinds
C32_ValidateOrder ==
  fate = "run" =>
    \A b \in Candidates :
      /\ (MEM_validateBlock(St, b) = EXIT_SUCCESS) = (FailedStep(b) = 0)
      /\ \A c \in Candidates :
           (FailedStep(b) # 0 /\ FailedStep(c) # 0
              /\ FailedStep(b) # FailedStep(c))
             => MEM_validateBlock(St, b) # MEM_validateBlock(St, c)

\* the words a scanned stack can hold that lie inside the heap range
HeapWords == {a \in USER_START .. (heap_end - 1) : a % WORD = 0}

\* the candidate header of the stack word v is a valid block in use whose
\* payload holds v
Markable(s, v) ==
  /\ MEM_validateBlock(s, v - SIZEOF_HDR) = EXIT_SUCCESS
  /\ FreeOf(s, v - SIZEOF_HDR) = 0
  /\ v < v - SIZEOF_HDR + Fld(s, v - SIZEOF_HDR, OFF_size) - WORD

\* C33: once the marks are cleared, the mark phase writes nothing for a
\* stack word inside the heap range whose candidate header is not a valid
\* block in use: memory is the same before and after the word is scanned
C33_MarkFrame ==
  fate = "run" =>
    \A v \in HeapWords :
      ~Markable(MEM_setInitialMarks(St), v) =>
        MarkHeapWord(MEM_setInitialMarks(St), v) = MEM_setInitialMarks(St)

\* the allocator as the step in progress leaves it
StAfter ==
  [mem |-> mem', heap_end |-> heap_end', brk |-> brk',
   last_allocated |-> last_allocated', last_brk_start |-> last_brk_start',
   last_brk_end |-> last_brk_end', mmap_list |-> mmap_list',
   mapped |-> mapped', fate |-> fate', denied |-> FALSE, refuse |-> FALSE]

\* the step is the sweep of a cycle that runs to its end
SweepStep ==
  /\ fate = "run" /\ fate' = "run"
  /\ \/ \E w \in Workers : wpc[w] = "sweep" /\ wpc'[w] = "ready"
     \/ mpc = "sweep" /\ mpc' = "idle"

\* the heap block that holds the map-list node m is a block in use
NodeHeld(s, m) ==
  /\ m - SIZEOF_HDR + Fld(s, m - SIZEOF_HDR, OFF_size) <= s.heap_end
  /\ FreeOf(s, m - SIZEOF_HDR) = 0

C35_EnableUnlocks == mpc = "idle" => MAIN \notin gc_lock

\* the payload capacity of the block of payload p
Capacity(s, p) == Fld(s, p - SIZEOF_HDR, OFF_size) - SIZEOF_HDR - WORD

\* realloc of the block in use p to n bytes has to allocate a new block, and
\* that allocation returns an error
GrowFails(p, n, strategy) ==
  /\ MEM_validateBlock(St, p - SIZEOF_HDR) = EXIT_SUCCESS
  /\ Capacity(St, p) < n
  /\ MEM_allocatorMalloc(St, n, strategy).s.fate = "run"
  /\ MEM_allocatorMalloc(St, n, strategy).ret < 0

\* C36: when the allocation of the new block inside a growing realloc
\* fails, realloc returns that error, memory is left as it was and the old
\* block is still in use
C36_ReallocFailure ==
  fate = "run" =>
    \A p \in inuse, n \in ReSizes, strategy \in Strategies :
      GrowFails(p, n, strategy) =>
        /\ MEM_allocatorRealloc(St, p, n, strategy).s.fate = "run"
        /\ MEM_allocatorRealloc(St, p, n, strategy).ret
             = MEM_allocatorMalloc(St, n, strategy).ret
        /\ MEM_allocatorRealloc(St, p, n, strategy).s.mem = mem
        /\ FreeOf(MEM_allocatorRealloc(St, p, n, strategy).s,
                  p - SIZEOF_HDR) = 0

\* C37: realloc of a pointer whose block is a free block of the heap (the
\* pointer was freed already) returns no usable pointer
C37_ReallocFreed ==
  fate = "run" =>
    \A i \in Slots, n \in ReSizes, strategy \in Strategies :
      (/\ stack[i] # NULL
       /\ stack[i] \notin inuse
       /\ stack[i] - SIZEOF_HDR \in HeapBlocks
       /\ FreeOf(St, stack[i] - SIZEOF_HDR) # 0)
        => MEM_allocatorRealloc(St, stack[i], n, strategy).ret <= 0

BadSizes == {0, SIZEOF_HDR - WORD, BRK_LIMIT, W64 - SIZEOF_HDR}

\* the heap with the size field of the header at b replaced
Smashed(b, v) == SetFld(St, b, OFF_size, v)

\* lines 3375-3411: heap_ptr after one turn of the sweep loop
SweepNext(s, heap_ptr, fault) ==
  IF Fld(s, heap_ptr, OFF_size) >= SIZEOF_HDR
     /\ Fld(s, heap_ptr, OFF_size) <= s.heap_end - heap_ptr
    THEN heap_ptr + Fld(SweepBlock(s, heap_ptr, fault), heap_ptr, OFF_size)
    ELSE heap_ptr + SIZEOF_HDR

\* C39: whatever size a header of the heap holds, one turn of the clear
\* walk and of the sweep walk moves the cursor forward, and both walks end
C39_WalksEnd ==
  fate = "run" =>
    \A b \in HeapBlocks, v \in BadSizes :
      /\ ClearNext(Smashed(b, v), b) > b
      /\ SweepNext(Smashed(b, v), b, FALSE) > b
      /\ InitMarksHeap(Smashed(b, v), USER_START, {}).fate # "hang"
      /\ SweepHeap(Smashed(b, v), USER_START, FALSE).fate # "hang"
\* the pthread_mutex_unlock of line 3519 reached from inside a cycle
WorkerUnlocks(w) == wpc[w] \in {"mark", "sweep"} /\ wpc'[w] = "done"

\* C40: a worker that unlocks gc_lock on its way out of a cycle holds it
C40_UnlockHeld ==
  [][\A w \in Workers : WorkerUnlocks(w) => w \in gc_lock]_vars

====
